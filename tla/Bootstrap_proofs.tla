-------------------------- MODULE Bootstrap_proofs --------------------------
(***************************************************************************)
(* Theorems about Bootstrap, for every bound: the cookie is write-once and *)
(* a CA that is mirrored stays, however stale the cache; as long as the    *)
(* operator has read its own writes the housekeeping keys match.           *)
(***************************************************************************)
EXTENDS Bootstrap, BacklogLemmas

-----------------------------------------------------------------------------
(* Types.                                                                  *)

\* A write of well-formed content.
LEMMA PutType ==
  ASSUME TypeOK, NEW s \in Secrets, NEW content \in Nat, Put(s, content)
  PROVE  store' \in Contents /\ backlog' \in Seq(Contents) /\ writes' \in Nat
<1>1. store' \in Contents
  BY DEF TypeOK, Contents, Put
<1>2. backlog' \in Seq(Contents)
  BY <1>1 DEF TypeOK, Put
<1>3. QED
  BY <1>1, <1>2 DEF TypeOK, Put

\* What the cache shows is a number.
LEMMA ViewType == ASSUME TypeOK, NEW s \in Secrets PROVE view[s] \in Nat /\ store[s] \in Nat
  BY DEF TypeOK, Contents

LEMMA LookupTypes ==
  ASSUME TypeOK, NEW label, NEW s \in Secrets, NEW found \in Labels,
         NEW missing \in Labels, Lookup(label, s, found, missing), prompt' \in BOOLEAN
  PROVE  TypeOK'
  BY DEF TypeOK, Lookup, Goto, Untouched

LEMMA FindTypes ==
  ASSUME TypeOK, NEW label, NEW s \in Secrets, NEW content \in Nat,
         NEW next \in Labels, Find(label, s, content, next), prompt' \in BOOLEAN
  PROVE  TypeOK'
  BY ViewType DEF TypeOK, Find, Goto, Untouched

LEMMA FailTypes ==
  ASSUME TypeOK, Fail
  PROVE  pc' \in Labels /\ key' \in Nat /\ read' \in Nat /\ queued' \in BOOLEAN
  BY DEF Fail, Labels, None

LEMMA StoreTypes ==
  ASSUME TypeOK, NEW label, NEW s \in Secrets, NEW next \in Labels,
         StoreAs(label, s, next), prompt' \in BOOLEAN
  PROVE  TypeOK'
<1>1. CASE store[s] = read
  <2>1. Put(s, key) /\ pc' = next /\ read' = None /\ UNCHANGED <<key, queued, view, spent>>
    BY <1>1 DEF StoreAs, Goto
  <2>2. store' \in Contents /\ backlog' \in Seq(Contents) /\ writes' \in Nat
    BY <2>1, PutType DEF TypeOK
  <2>3. QED
    BY <2>1, <2>2 DEF TypeOK, None
<1>2. CASE store[s] # read
  BY <1>2, FailTypes DEF StoreAs, Untouched, TypeOK
<1>3. QED
  BY <1>1, <1>2

LEMMA TypeWorker == TypeOK /\ Worker => TypeOK'
<1> SUFFICES ASSUME TypeOK, Worker PROVE TypeOK'
  OBVIOUS
<1>1. Fresh \in Nat /\ key \in Nat /\ prompt' \in BOOLEAN
  BY DEF TypeOK, Fresh, Worker
<1>2. CASE Start
  BY <1>1, <1>2 DEF Start, Untouched, TypeOK, Labels
<1>3. CASE \/ LookupPublicKey \/ LookupPrivateKey \/ LookupSecretKeyBase
           \/ LookupCookie \/ LookupCA
  BY <1>1, <1>3, LookupTypes
  DEF LookupPublicKey, LookupPrivateKey, LookupSecretKeyBase, LookupCookie, LookupCA,
      Labels, Secrets
<1>4. CASE GenerateKeyPair \/ FindPublicKey \/ GenerateSecretKeyBase \/ GenerateCA
  BY <1>1, <1>4, FindTypes
  DEF GenerateKeyPair, FindPublicKey, GenerateSecretKeyBase, GenerateCA, Labels, Secrets
<1>5. CASE StorePrivateKey \/ StorePublicKey \/ StoreSecretKeyBase \/ StoreCA
  BY <1>1, <1>5, StoreTypes
  DEF StorePrivateKey, StorePublicKey, StoreSecretKeyBase, StoreCA, Labels, Secrets
<1>6. CASE ErasePrivateKey
  <2>1. CASE Put("private", None)
    <3>1. store' \in Contents /\ backlog' \in Seq(Contents) /\ writes' \in Nat
      BY <2>1, PutType DEF Secrets, None
    <3>2. QED
      BY <1>1, <1>6, <3>1, FailTypes DEF ErasePrivateKey, Goto, Labels, TypeOK
  <2>2. CASE Untouched
    BY <1>1, <1>6, <2>2, FailTypes DEF ErasePrivateKey, Goto, Labels, TypeOK, Untouched
  <2>3. QED
    BY <1>6, <2>1, <2>2 DEF ErasePrivateKey
<1>7. CASE CreateCookie
  <2>1. CASE Put("cookie", Fresh)
    <3>1. store' \in Contents /\ backlog' \in Seq(Contents) /\ writes' \in Nat
      BY <1>1, <2>1, PutType DEF Secrets
    <3>2. QED
      BY <1>1, <1>7, <3>1, FailTypes DEF CreateCookie, Goto, Labels, TypeOK
  <2>2. CASE Untouched
    BY <1>1, <1>7, <2>2, FailTypes DEF CreateCookie, Goto, Labels, TypeOK, Untouched
  <2>3. QED
    BY <1>7, <2>1, <2>2 DEF CreateCookie
<1>8. CASE MirrorCA
  <2>1. CASE Find("proxy?", "proxy", view["ca"], "proxy!")
    BY <1>1, <2>1, FindTypes, ViewType DEF Secrets, Labels
  <2>2. CASE Fail /\ Untouched /\ UNCHANGED <<view, spent>>
    BY <1>1, <2>2, FailTypes DEF TypeOK, Untouched
  <2>3. QED
    BY <1>8, <2>1, <2>2 DEF MirrorCA
<1>9. CASE StoreProxy
  <2>1. CASE StoreAs("proxy!", "proxy", "idle")
    BY <1>1, <2>1, StoreTypes DEF Secrets, Labels
  <2>2. CASE Goto("idle") /\ key' = None /\ read' = None /\ Untouched /\ UNCHANGED <<view, spent>>
    BY <1>1, <2>2 DEF TypeOK, Goto, Untouched, Labels, None
  <2>3. QED
    BY <1>9, <2>1, <2>2 DEF StoreProxy
<1>10. QED
  BY <1>2, <1>3, <1>4, <1>5, <1>6, <1>7, <1>8, <1>9 DEF Worker

LEMMA TypeOthers == TypeOK /\ (Deliver \/ Environment) => TypeOK'
<1> SUFFICES ASSUME TypeOK, Deliver \/ Environment PROVE TypeOK'
  OBVIOUS
<1>1. ASSUME NEW what \in DOMAIN Bound, Spend(what)
      PROVE  spent' \in [DOMAIN Bound -> Nat]
  BY <1>1 DEF Spend, TypeOK
<1>2. CASE Deliver
  <2>1. Head(backlog) \in Contents /\ Tail(backlog) \in Seq(Contents)
    BY <1>2 DEF Deliver, TypeOK
  <2>2. QED
    BY <1>2, <2>1 DEF Deliver, TypeOK
<1>3. CASE CallFails
  BY <1>1, <1>3, FailTypes DEF CallFails, Untouched, TypeOK, Bound
<1>4. CASE Restart
  <2>1. backlog' \in Seq(Contents)
    BY <1>4 DEF Restart
  <2>2. QED
    BY <1>1, <1>4, <2>1, FailTypes DEF Restart, TypeOK, Bound
<1>5. ASSUME NEW s \in Secrets, EraseSecret(s) PROVE TypeOK'
  <2>1. store' \in Contents /\ backlog' \in Seq(Contents) /\ writes' \in Nat
    BY <1>5, PutType DEF EraseSecret, None
  <2>2. QED
    BY <1>1, <1>5, <2>1 DEF EraseSecret, TypeOK, Bound
<1>6. QED
  BY <1>2, <1>3, <1>4, <1>5 DEF Environment

LEMMA TypeInit == Init => TypeOK
  BY DEF Init, TypeOK, Absent, Contents, Labels, None

LEMMA TypeStep == TypeOK /\ [Next]_vars => TypeOK'
  BY TypeWorker, TypeOthers DEF Next, TypeOK, vars

\* Type correctness.
THEOREM TypeCorrect == Spec => []TypeOK
  BY TypeInit, TypeStep, PTL DEF Spec

-----------------------------------------------------------------------------
(* The cookie implements WriteOnce.                                        *)

\* A write changes one secret.
LEMMA PutOne ==
  ASSUME TypeOK, NEW s \in Secrets, NEW content, Put(s, content)
  PROVE  store'[s] = content /\ \A c \in Secrets \ {s} : store'[c] = store[c]
  BY DEF TypeOK, Contents, Put

\* What CreateOrUpdate does to the store.
LEMMA StoreOne ==
  ASSUME TypeOK, NEW label, NEW s \in Secrets, NEW next, StoreAs(label, s, next)
  PROVE  /\ \A c \in Secrets \ {s} : store'[c] = store[c]
         /\ \/ store'[s] = store[s]
            \/ store[s] = read /\ store'[s] = key
<1>1. CASE store[s] = read
  BY <1>1, PutOne DEF StoreAs
<1>2. CASE store[s] # read
  <2>1. Untouched
    BY <1>2 DEF StoreAs
  <2>2. QED
    BY <2>1 DEF Untouched
<1>3. QED
  BY <1>1, <1>2

\* The steps that write, and what they write.
LEMMA Writers ==
  ASSUME TypeOK, Next
  PROVE  \/ UNCHANGED store
         \/ StorePrivateKey \/ StorePublicKey \/ StoreSecretKeyBase \/ StoreCA
         \/ StoreAs("proxy!", "proxy", "idle")
         \/ ErasePrivateKey \/ CreateCookie
         \/ \E s \in Secrets : EraseSecret(s)
<1>1. Worker => \/ UNCHANGED store
                \/ StorePrivateKey \/ StorePublicKey \/ StoreSecretKeyBase \/ StoreCA
                \/ StoreAs("proxy!", "proxy", "idle")
                \/ ErasePrivateKey \/ CreateCookie
  BY DEF Worker, Start, LookupPublicKey, LookupPrivateKey, LookupSecretKeyBase,
     LookupCookie, LookupCA, Lookup, GenerateKeyPair, FindPublicKey,
     GenerateSecretKeyBase, GenerateCA, MirrorCA, Find, StoreProxy, Untouched
<1>2. Deliver \/ CallFails \/ Restart => UNCHANGED store
  BY DEF Deliver, CallFails, Restart, Untouched
<1>3. QED
  BY <1>1, <1>2 DEF Next, Environment

\* What each of them does to a secret other than its own.
LEMMA ErasePrivateOne ==
  ASSUME TypeOK, ErasePrivateKey
  PROVE  /\ \A c \in Secrets \ {"private"} : store'[c] = store[c]
         /\ store'["private"] \in {None, store["private"]}
<1>1. CASE Put("private", None)
  BY <1>1, PutOne DEF Secrets
<1>2. CASE Untouched
  BY <1>2 DEF Untouched
<1>3. QED
  BY <1>1, <1>2 DEF ErasePrivateKey

LEMMA CreateCookieOne ==
  ASSUME TypeOK, CreateCookie
  PROVE  /\ \A c \in Secrets \ {"cookie"} : store'[c] = store[c]
         /\ store["cookie"] = None \/ store'["cookie"] = store["cookie"]
<1>1. CASE store["cookie"] = None
  BY <1>1, PutOne DEF CreateCookie, Secrets
<1>2. CASE store["cookie"] # None
  BY <1>2 DEF CreateCookie, Untouched
<1>3. QED
  BY <1>1, <1>2

LEMMA EraseOne ==
  ASSUME TypeOK, NEW s \in Secrets, EraseSecret(s)
  PROVE  /\ \A c \in Secrets \ {s} : store'[c] = store[c]
         /\ store'[s] = None
  BY PutOne DEF EraseSecret

\* However stale the cache is, and whatever fails or restarts, no step
\* replaces a cookie: ensureErlangCookieSecret implements WriteOnce.
THEOREM CookieIsWriteOnce == Spec => CookieWriteOnce
<1>1. Init => Cookie!Init
  BY DEF Init, Absent, Secrets, Cookie!Init
<1>2. TypeOK /\ [Next]_vars => [Cookie!Next]_(store["cookie"])
  <2> SUFFICES ASSUME TypeOK, Next
               PROVE  Cookie!Next \/ UNCHANGED store["cookie"]
    BY DEF vars
  <2>1. CASE \/ StorePrivateKey \/ StorePublicKey \/ StoreSecretKeyBase \/ StoreCA
             \/ StoreAs("proxy!", "proxy", "idle")
    BY <2>1, StoreOne
    DEF StorePrivateKey, StorePublicKey, StoreSecretKeyBase, StoreCA, Secrets
  <2>2. CASE ErasePrivateKey
    BY <2>2, ErasePrivateOne DEF Secrets
  <2>3. CASE CreateCookie
    BY <2>3, CreateCookieOne DEF Cookie!Next, Cookie!Generate
  <2>4. CASE \E s \in Secrets : EraseSecret(s)
    BY <2>4, EraseOne DEF Cookie!Next, Cookie!Erase, Secrets
  <2>5. QED
    BY <2>1, <2>2, <2>3, <2>4, Writers
<1>3. QED
  BY <1>1, <1>2, TypeCorrect, PTL DEF Spec, CookieWriteOnce, Cookie!Spec

-----------------------------------------------------------------------------
(* An operator that has read its own writes.                               *)

\* Everything that writes keeps the cache on its way to the store.
LEMMA SyncedPut ==
  ASSUME TypeOK, NEW s \in Secrets, NEW content \in Nat, Put(s, content)
  PROVE  Synced'
<1>1. store' \in Contents /\ backlog' = Append(backlog, store') /\ backlog \in Seq(Contents)
  BY PutType DEF Put, TypeOK
<1>2. backlog' # <<>> /\ backlog'[Len(backlog')] = store'
  BY <1>1
<1>3. QED
  BY <1>2 DEF Synced

LEMMA SyncedStore ==
  ASSUME TypeOK, Synced, NEW label, NEW s \in Secrets, NEW next, StoreAs(label, s, next)
  PROVE  Synced'
<1>1. CASE store[s] = read
  BY <1>1, SyncedPut DEF StoreAs, TypeOK
<1>2. CASE store[s] # read
  BY <1>2 DEF StoreAs, Untouched, Synced
<1>3. QED
  BY <1>1, <1>2

LEMMA SyncedNext == TypeOK /\ Synced /\ [Next]_vars => Synced'
<1> SUFFICES ASSUME TypeOK, Synced, [Next]_vars PROVE Synced'
  OBVIOUS
<1>1. CASE UNCHANGED <<store, view, backlog>>
  BY <1>1 DEF Synced
<1>2. CASE \/ StorePrivateKey \/ StorePublicKey \/ StoreSecretKeyBase \/ StoreCA
           \/ StoreAs("proxy!", "proxy", "idle")
  BY <1>2, SyncedStore
  DEF StorePrivateKey, StorePublicKey, StoreSecretKeyBase, StoreCA, Secrets
<1>3. CASE ErasePrivateKey /\ Put("private", None)
  BY <1>3, SyncedPut DEF Secrets, None
<1>4. CASE CreateCookie /\ Put("cookie", Fresh)
  BY <1>4, SyncedPut DEF Secrets, Fresh, TypeOK
<1>5. CASE \E s \in Secrets : EraseSecret(s)
  BY <1>5, SyncedPut DEF EraseSecret, None
<1>6. CASE Deliver
  <2>1. backlog \in Seq(Contents) /\ backlog # <<>> /\ backlog[Len(backlog)] = store
    BY <1>6 DEF Deliver, Synced, TypeOK
  <2>2. CASE Len(backlog) = 1
    BY <1>6, <2>1, <2>2 DEF Deliver, Synced
  <2>3. CASE Len(backlog) > 1
    <3>1. Tail(backlog) # <<>> /\ Tail(backlog)[Len(Tail(backlog))] = backlog[Len(backlog)]
      BY <2>1, <2>3
    <3>2. QED
      BY <1>6, <2>1, <3>1 DEF Deliver, Synced
  <2>4. Len(backlog) = 1 \/ Len(backlog) > 1
    <3>1. Len(backlog) \in Nat \ {0}
      BY <2>1, EmptySeq
    <3>2. QED
      BY <3>1
  <2>5. QED
    BY <2>2, <2>3, <2>4
<1>7. CASE Restart
  BY <1>7 DEF Restart, Synced
<1>8. \/ UNCHANGED <<store, view, backlog>>
      \/ StorePrivateKey \/ StorePublicKey \/ StoreSecretKeyBase \/ StoreCA
      \/ StoreAs("proxy!", "proxy", "idle")
      \/ ErasePrivateKey /\ Put("private", None)
      \/ CreateCookie /\ Put("cookie", Fresh)
      \/ (\E s \in Secrets : EraseSecret(s)) \/ Deliver \/ Restart
  <2>1. Worker => \/ UNCHANGED <<store, view, backlog>>
                  \/ StorePrivateKey \/ StorePublicKey \/ StoreSecretKeyBase \/ StoreCA
                  \/ StoreAs("proxy!", "proxy", "idle")
                  \/ ErasePrivateKey /\ Put("private", None)
                  \/ CreateCookie /\ Put("cookie", Fresh)
    BY DEF Worker, Start, LookupPublicKey, LookupPrivateKey, LookupSecretKeyBase,
       LookupCookie, LookupCA, Lookup, GenerateKeyPair, FindPublicKey,
       GenerateSecretKeyBase, GenerateCA, MirrorCA, Find, StoreProxy, ErasePrivateKey,
       CreateCookie, Untouched
  <2>2. CallFails \/ UNCHANGED vars => UNCHANGED <<store, view, backlog>>
    BY DEF CallFails, Untouched, vars
  <2>3. QED
    BY <2>1, <2>2 DEF Next, Environment
<1>9. QED
  BY <1>1, <1>2, <1>3, <1>4, <1>5, <1>6, <1>7, <1>8

\* What the worker knows of the secrets it generates.
Known == StillMissing /\ HalfPair /\ Pair

\* With an up-to-date cache, every look-up tells what is there.
LEMMA KnownWorker ==
  ASSUME TypeOK, Known, view = store, Worker
  PROVE  Known'
<1> USE DEF Known, StillMissing, HalfPair, Pair, None
<1>1. CASE Start
  BY <1>1 DEF Start, Untouched
<1>2. CASE \/ LookupPublicKey \/ LookupPrivateKey \/ LookupSecretKeyBase
           \/ LookupCookie \/ LookupCA
  BY <1>2 DEF LookupPublicKey, LookupPrivateKey, LookupSecretKeyBase, LookupCookie,
              LookupCA, Lookup, Goto, Untouched
<1>3. CASE GenerateKeyPair \/ FindPublicKey \/ GenerateSecretKeyBase \/ GenerateCA
  BY <1>3 DEF GenerateKeyPair, FindPublicKey, GenerateSecretKeyBase, GenerateCA, Find,
              Goto, Untouched
<1>4. CASE Fail /\ Untouched
  BY <1>4 DEF Fail, Untouched
<1>5. CASE StorePrivateKey /\ store["private"] = read
  <2>1. pc = "private!" /\ pc' = "public" /\ key' = key /\ Put("private", key)
    BY <1>5 DEF StorePrivateKey, StoreAs, Goto
  <2>2. store'["private"] = key /\ store'["public"] = store["public"]
    BY <2>1, PutOne DEF Secrets
  <2>3. QED
    BY <2>1, <2>2
<1>6. CASE StorePublicKey /\ store["public"] = read
  <2>1. pc = "public!" /\ pc' = "base?" /\ key' = key /\ Put("public", key)
    BY <1>6 DEF StorePublicKey, StoreAs, Goto
  <2>2. store'["public"] = key /\ store'["private"] = store["private"]
    BY <2>1, PutOne DEF Secrets
  <2>3. QED
    BY <2>1, <2>2
<1>7. CASE StoreSecretKeyBase /\ store["base"] = read
  <2>1. pc' = "cookie?" /\ Put("base", key)
    BY <1>7 DEF StoreSecretKeyBase, StoreAs, Goto
  <2>2. store'["public"] = store["public"] /\ store'["private"] = store["private"]
    BY <2>1, PutOne DEF Secrets
  <2>3. QED
    BY <2>1, <2>2
<1>8. CASE StoreCA /\ store["ca"] = read
  <2>1. pc' = "proxy?" /\ Put("ca", key)
    BY <1>8 DEF StoreCA, StoreAs, Goto
  <2>2. store'["public"] = store["public"] /\ store'["private"] = store["private"]
    BY <2>1, PutOne DEF Secrets
  <2>3. QED
    BY <2>1, <2>2
<1>9. CASE ErasePrivateKey /\ Put("private", None)
  <2>1. pc = "erase" /\ pc' \in {"generate", "idle"}
    BY <1>9 DEF ErasePrivateKey, Goto, Fail
  <2>2. store'["public"] = store["public"] /\ store'["private"] = None
    BY <1>9, PutOne DEF Secrets
  <2>3. QED
    BY <2>1, <2>2
<1>10. CASE CreateCookie /\ Put("cookie", Fresh)
  <2>1. pc' \in {"ca?", "idle"}
    BY <1>10 DEF CreateCookie, Goto, Fail
  <2>2. store'["public"] = store["public"] /\ store'["private"] = store["private"]
    BY <1>10, PutOne DEF Secrets
  <2>3. QED
    BY <2>1, <2>2
<1>11. CASE MirrorCA
  <2>1. UNCHANGED store /\ pc' \in {"proxy!", "idle"}
    BY <1>11 DEF MirrorCA, Find, Goto, Fail, Untouched
  <2>2. QED
    BY <2>1
<1>12. CASE StoreProxy
  <2>1. pc' = "idle"
    BY <1>12 DEF StoreProxy, StoreAs, Goto, Fail
  <2>2. store'["public"] = store["public"] /\ store'["private"] = store["private"]
    BY <1>12, StoreOne DEF StoreProxy, Untouched, Secrets
  <2>3. QED
    BY <2>1, <2>2
<1>13. QED
  BY <1>1, <1>2, <1>3, <1>4, <1>5, <1>6, <1>7, <1>8, <1>9, <1>10, <1>11, <1>12
  DEF Worker, StorePrivateKey, StorePublicKey, StoreSecretKeyBase, StoreCA, StoreAs,
      ErasePrivateKey, CreateCookie

\* Nothing else makes up a secret.
LEMMA KnownOthers ==
  ASSUME TypeOK, Known, Deliver \/ Environment
  PROVE  Known'
<1> USE DEF Known, StillMissing, HalfPair, Pair, None
<1>1. CASE Deliver
  BY <1>1 DEF Deliver
<1>2. CASE CallFails
  BY <1>2 DEF CallFails, Fail, Untouched
<1>3. CASE Restart
  BY <1>3 DEF Restart, Fail
<1>4. ASSUME NEW s \in Secrets, EraseSecret(s) PROVE Known'
  <2>1. \A c \in Secrets : store'[c] \in {None, store[c]}
    BY <1>4, EraseOne
  <2>2. UNCHANGED <<pc, key, read>>
    BY <1>4 DEF EraseSecret
  <2>3. QED
    BY <2>1, <2>2 DEF Secrets
<1>5. QED
  BY <1>1, <1>2, <1>3, <1>4 DEF Environment

LEMMA PromptInit == Init => PromptInv
  BY TypeInit
  DEF Init, PromptInv, Synced, StillMissing, HalfPair, Pair, Absent, Secrets, None

LEMMA PromptStep == PromptInv /\ [Next]_vars => PromptInv'
<1> SUFFICES ASSUME PromptInv, [Next]_vars PROVE PromptInv'
  OBVIOUS
<1>1. TypeOK /\ Synced /\ (prompt => Known)
  BY DEF PromptInv, Known
<1>2. TypeOK' /\ Synced'
  BY <1>1, TypeStep, SyncedNext
<1>3. ASSUME prompt' PROVE Known'
  <2>1. CASE Worker
    <3>1. prompt /\ backlog = <<>>
      BY <1>3, <2>1 DEF Worker
    <3>2. view = store
      BY <1>1, <3>1 DEF Synced
    <3>3. QED
      BY <1>1, <2>1, <3>1, <3>2, KnownWorker
  <2>2. CASE Deliver \/ Environment
    <3>1. UNCHANGED prompt
      BY <2>2 DEF Deliver, Environment, CallFails, Restart, EraseSecret
    <3>2. QED
      BY <1>1, <1>3, <2>2, <3>1, KnownOthers
  <2>3. CASE UNCHANGED vars
    BY <1>1, <1>3, <2>3 DEF vars, Known, StillMissing, HalfPair, Pair
  <2>4. QED
    BY <2>1, <2>2, <2>3 DEF Next
<1>4. QED
  BY <1>2, <1>3 DEF PromptInv, Known

\* An operator that has read its own writes only generates what is missing.
THEOREM PromptInvariant == Spec => []PromptInv
  BY PromptInit, PromptStep, PTL DEF Spec

\* So the housekeeping keys match as long as it has, through failures, restarts
\* and erasures between the two halves of EnsureHousekeepingKey.
THEOREM KeyPairAlwaysMatches == Spec => []KeyPairMatches
<1>1. PromptInv => KeyPairMatches
  BY DEF PromptInv, KeyPairMatches
<1>2. QED
  BY <1>1, PromptInvariant, PTL

-----------------------------------------------------------------------------
(* A CA that is mirrored stays.                                            *)

\* The CAs are numbers.
LEMMA ShownNat ==
  ASSUME TypeOK
  PROVE  \A c \in ShownCAs \cup {store["ca"], store["proxy"]} : c \in Nat
<1>1. \A i \in DOMAIN backlog : backlog[i]["ca"] \in Nat
  <2>1. \A i \in DOMAIN backlog : backlog[i] \in Contents
    BY DEF TypeOK
  <2>2. \A content \in Contents : content["ca"] \in Nat
    BY DEF Contents, Secrets
  <2>3. QED
    BY <2>1, <2>2
<1>2. view["ca"] \in Nat /\ store["ca"] \in Nat /\ store["proxy"] \in Nat
  BY ViewType DEF Secrets
<1>3. QED
  BY <1>1, <1>2 DEF ShownCAs

\* A write to another secret shows the CA that there is.
LEMMA ShownPut ==
  ASSUME TypeOK, PresentCAStaysShown, NEW s \in Secrets \ {"ca"}, NEW content \in Nat,
         Put(s, content), UNCHANGED view
  PROVE  PresentCAStaysShown' /\ ShownCAs' \subseteq ShownCAs \cup {store["ca"]}
<1>1. store'["ca"] = store["ca"]
  BY PutOne DEF Secrets
<1>2. backlog' = Append(backlog, store') /\ backlog \in Seq(Contents)
  BY DEF Put, TypeOK
<1>3. \A i \in DOMAIN backlog' :
         (i \in DOMAIN backlog /\ backlog'[i] = backlog[i]) \/ backlog'[i] = store'
  BY <1>2, AppendItems
<1>4. \A i, j \in DOMAIN backlog' :
         i < j => i \in DOMAIN backlog /\ backlog'[i] = backlog[i]
  BY <1>2
<1>5. PresentCAStaysShown'
  BY <1>1, <1>3, <1>4 DEF PresentCAStaysShown
<1>6. QED
  BY <1>1, <1>3, <1>5 DEF ShownCAs

\* A write to the CA shows one that was not shown before, or none.
LEMMA ShownPutCA ==
  ASSUME TypeOK, NEW content \in Nat, content = None \/ content \notin ShownCAs,
         Put("ca", content), UNCHANGED view
  PROVE  PresentCAStaysShown' /\ ShownCAs' \subseteq ShownCAs \cup {content}
<1>1. store'["ca"] = content
  BY PutOne DEF Secrets
<1>2. backlog' = Append(backlog, store') /\ backlog \in Seq(Contents)
  BY DEF Put, TypeOK
<1>3. \A i \in DOMAIN backlog' :
         (i \in DOMAIN backlog /\ backlog'[i] = backlog[i]) \/ backlog'[i] = store'
  BY <1>2, AppendItems
<1>4. \A i, j \in DOMAIN backlog' :
         i < j => i \in DOMAIN backlog /\ backlog'[i] = backlog[i]
  BY <1>2
<1>5. content # None => /\ view["ca"] # content
                        /\ \A i \in DOMAIN backlog : backlog[i]["ca"] # content
  BY DEF ShownCAs
<1>6. PresentCAStaysShown'
  BY <1>1, <1>3, <1>4, <1>5 DEF PresentCAStaysShown
<1>7. QED
  BY <1>1, <1>3, <1>6 DEF ShownCAs

\* The cache moves on.
LEMMA ShownDeliver ==
  ASSUME TypeOK, PresentCAStaysShown, Deliver
  PROVE  /\ PresentCAStaysShown' /\ ShownCAs' \subseteq ShownCAs
         /\ view["ca"] = store["ca"] /\ store["ca"] # None => view'["ca"] = store["ca"]
<1>1. /\ backlog \in Seq(Contents) /\ backlog # <<>>
      /\ view' = Head(backlog) /\ backlog' = Tail(backlog) /\ UNCHANGED store
  BY DEF Deliver, TypeOK
<1>2. /\ view' = backlog[1] /\ 1 \in DOMAIN backlog
      /\ \A i \in DOMAIN backlog' : /\ i + 1 \in DOMAIN backlog /\ 1 < i + 1
                                    /\ backlog'[i] = backlog[i + 1]
      /\ \A i, j \in DOMAIN backlog' : i < j => i + 1 < j + 1
  BY <1>1, TailShifts
<1>3. PresentCAStaysShown'
  BY <1>1, <1>2 DEF PresentCAStaysShown
<1>4. ShownCAs' \subseteq ShownCAs
  BY <1>2 DEF ShownCAs
<1>5. QED
  BY <1>1, <1>2, <1>3, <1>4 DEF PresentCAStaysShown

\* What CallFails, Restart and an abandoned write leave behind.
LEMMA MirrorFails ==
  ASSUME MirrorInv, TypeOK', Fail, Untouched, UNCHANGED view PROVE MirrorInv'
  BY DEF MirrorInv, PresentCAStaysShown, NewCAIsNew, MirroredIsShown, Mirrored, ShownCAs,
         Fail, Untouched

\* Steps that write nothing and neither generate a CA nor mirror it.
LEMMA MirrorStays ==
  ASSUME MirrorInv, TypeOK', Untouched, UNCHANGED view,
         pc' \notin {"ca!", "proxy!"}, pc' = "ca" => view["ca"] = None
  PROVE  MirrorInv'
  BY DEF MirrorInv, PresentCAStaysShown, NewCAIsNew, MirroredIsShown, Mirrored, ShownCAs,
         Untouched

\* Writes to what is neither the CA nor its mirror.
LEMMA MirrorWrites ==
  ASSUME MirrorInv, TypeOK', NEW s \in Secrets \ {"ca", "proxy"}, NEW content \in Nat,
         Put(s, content), UNCHANGED view,
         pc' \notin {"ca", "ca!", "proxy!"} \/ UNCHANGED <<pc, key>>
  PROVE  MirrorInv'
<1>1. PresentCAStaysShown' /\ ShownCAs' \subseteq ShownCAs \cup {store["ca"]}
  BY ShownPut DEF MirrorInv
<1>2. store'["ca"] = store["ca"] /\ store'["proxy"] = store["proxy"]
  BY PutOne DEF Secrets, MirrorInv
<1>3. writes \in Nat /\ writes' = writes + 1 /\ key \in Nat
      /\ \A c \in ShownCAs \cup {store["ca"], store["proxy"]} : c \in Nat
  BY ShownNat DEF MirrorInv, TypeOK, Put
<1>4. NewCAIsNew'
  BY <1>1, <1>2, <1>3 DEF MirrorInv, NewCAIsNew
<1>5. MirroredIsShown'
  BY <1>2 DEF MirrorInv, MirroredIsShown, Mirrored
<1>6. QED
  BY <1>1, <1>4, <1>5 DEF MirrorInv

\* createCFSSLCASecret: the new CA is newer than what the proxy mirrors.
LEMMA MirrorGenerates ==
  ASSUME MirrorInv, TypeOK', GenerateCA \/ StoreCA
  PROVE  MirrorInv'
<1>1. /\ TypeOK /\ writes \in Nat /\ key \in Nat /\ UNCHANGED view
      /\ \A c \in ShownCAs \cup {store["ca"], store["proxy"]} : c \in Nat /\ c <= writes
  BY ShownNat DEF MirrorInv, TypeOK, NewCAIsNew, GenerateCA, Find, StoreCA, StoreAs
<1>2. CASE GenerateCA
  <2>1. /\ pc = "ca" /\ pc' = "ca!" /\ key' = writes + 1
        /\ UNCHANGED <<store, backlog, writes>>
    BY <1>2 DEF GenerateCA, Find, Goto, Fresh, Untouched
  <2>2. PresentCAStaysShown' /\ ShownCAs' = ShownCAs
    BY <1>1, <2>1 DEF MirrorInv, PresentCAStaysShown, ShownCAs
  <2>3. NewCAIsNew' /\ MirroredIsShown'
    BY <1>1, <2>1, <2>2 DEF MirrorInv, NewCAIsNew, MirroredIsShown, Mirrored
  <2>4. QED
    BY <2>2, <2>3 DEF MirrorInv
<1>3. CASE StoreCA /\ store["ca"] = read
  <2>1. pc = "ca!" /\ pc' = "proxy?" /\ Put("ca", key)
    BY <1>3 DEF StoreCA, StoreAs, Goto
  <2>2. \A c \in ShownCAs \cup {store["ca"], store["proxy"]} : c < key
    BY <2>1 DEF MirrorInv, NewCAIsNew
  <2>3. PresentCAStaysShown' /\ ShownCAs' \subseteq ShownCAs \cup {key}
    BY <1>1, <2>1, <2>2, ShownPutCA
  <2>4. store'["ca"] = key /\ store'["proxy"] = store["proxy"] /\ writes' = writes + 1
    BY <1>1, <2>1, PutOne DEF Secrets, Put
  <2>5. key <= writes + 1
    BY <2>1 DEF MirrorInv, NewCAIsNew
  <2>6. NewCAIsNew'
    BY <1>1, <2>1, <2>3, <2>4, <2>5 DEF NewCAIsNew
  <2>7. MirroredIsShown'
    BY <1>1, <2>1, <2>2, <2>4 DEF MirroredIsShown, Mirrored
  <2>8. QED
    BY <2>3, <2>6, <2>7 DEF MirrorInv
<1>4. CASE StoreCA /\ store["ca"] # read
  BY <1>4, MirrorFails DEF StoreCA, StoreAs
<1>5. QED
  BY <1>2, <1>3, <1>4

\* ensureCFSSLCAProxySecret mirrors what the cache shows.
LEMMA MirrorMirrors ==
  ASSUME MirrorInv, TypeOK', MirrorCA \/ StoreProxy
  PROVE  MirrorInv'
<1>1. TypeOK /\ writes \in Nat /\ key \in Nat /\ UNCHANGED view
  BY DEF MirrorInv, TypeOK, MirrorCA, Find, StoreProxy, StoreAs
<1>2. CASE view["ca"] # None /\ Find("proxy?", "proxy", view["ca"], "proxy!")
  <2>1. /\ pc' = "proxy!" /\ key' = view["ca"] /\ pc = "proxy?"
        /\ UNCHANGED <<store, backlog, writes>>
    BY <1>2 DEF Find, Goto, Untouched
  <2>2. PresentCAStaysShown' /\ ShownCAs' = ShownCAs /\ view["ca"] \in ShownCAs
    BY <1>1, <2>1 DEF MirrorInv, PresentCAStaysShown, ShownCAs
  <2>3. NewCAIsNew' /\ MirroredIsShown'
    BY <1>1, <2>1, <2>2 DEF MirrorInv, NewCAIsNew, MirroredIsShown, Mirrored
  <2>4. QED
    BY <2>2, <2>3 DEF MirrorInv
<1>3. CASE view["ca"] = None /\ MirrorCA
  BY <1>3, MirrorFails DEF MirrorCA
<1>4. CASE StoreAs("proxy!", "proxy", "idle") /\ store["proxy"] = read
  <2>1. pc = "proxy!" /\ pc' = "idle" /\ Put("proxy", key)
    BY <1>4 DEF StoreAs, Goto
  <2>2. PresentCAStaysShown' /\ ShownCAs' \subseteq ShownCAs \cup {store["ca"]}
    BY <1>1, <2>1, ShownPut DEF MirrorInv, Secrets
  <2>3. store'["ca"] = store["ca"] /\ store'["proxy"] = key /\ writes' = writes + 1
    BY <1>1, <2>1, PutOne DEF Secrets, Put
  <2>4. \A c \in ShownCAs \cup {store["ca"], key} : c \in Nat /\ c <= writes
    BY <1>1, <2>1, ShownNat DEF MirrorInv, NewCAIsNew
  <2>5. NewCAIsNew'
    BY <1>1, <2>1, <2>2, <2>3, <2>4 DEF NewCAIsNew
  <2>6. MirroredIsShown'
    BY <1>1, <2>1, <2>3 DEF MirrorInv, MirroredIsShown, Mirrored
  <2>7. QED
    BY <2>2, <2>5, <2>6 DEF MirrorInv
<1>5. CASE StoreAs("proxy!", "proxy", "idle") /\ store["proxy"] # read
  BY <1>5, MirrorFails DEF StoreAs
<1>6. CASE StoreProxy /\ Untouched /\ pc' = "idle"
  BY <1>1, <1>6, MirrorStays
<1>7. QED
  BY <1>2, <1>3, <1>4, <1>5, <1>6 DEF MirrorCA, StoreProxy, Goto

LEMMA MirrorWorker ==
  ASSUME MirrorInv, TypeOK', Worker
  PROVE  MirrorInv'
<1>1. TypeOK
  BY DEF MirrorInv
<1>2. CASE \/ Start \/ LookupPublicKey \/ LookupPrivateKey \/ LookupSecretKeyBase
           \/ LookupCookie \/ LookupCA
           \/ GenerateKeyPair \/ FindPublicKey \/ GenerateSecretKeyBase
  BY <1>2, MirrorStays
  DEF Start, LookupPublicKey, LookupPrivateKey, LookupSecretKeyBase, LookupCookie,
      LookupCA, Lookup, GenerateKeyPair, FindPublicKey, GenerateSecretKeyBase, Find, Goto
<1>3. ASSUME NEW label, NEW s \in Secrets \ {"ca", "proxy"},
             NEW next \in {"public", "base?", "cookie?"}, StoreAs(label, s, next)
      PROVE  MirrorInv'
  <2>1. CASE store[s] = read
    <3>1. Put(s, key) /\ pc' = next /\ UNCHANGED view /\ key \in Nat
      BY <1>1, <1>3, <2>1 DEF StoreAs, Goto, TypeOK
    <3>2. QED
      BY <3>1, MirrorWrites
  <2>2. CASE store[s] # read
    BY <1>3, <2>2, MirrorFails DEF StoreAs
  <2>3. QED
    BY <2>1, <2>2
<1>4. CASE StorePrivateKey \/ StorePublicKey \/ StoreSecretKeyBase
  BY <1>3, <1>4 DEF StorePrivateKey, StorePublicKey, StoreSecretKeyBase, Secrets
<1>5. CASE ErasePrivateKey
  <2>1. CASE Put("private", None) /\ pc' = "generate" /\ UNCHANGED view
    BY <2>1, MirrorWrites DEF Secrets, None
  <2>2. CASE Fail /\ Untouched /\ UNCHANGED view
    BY <2>2, MirrorFails
  <2>3. QED
    BY <1>5, <2>1, <2>2 DEF ErasePrivateKey, Goto
<1>6. CASE CreateCookie
  <2>1. CASE Put("cookie", Fresh) /\ pc' = "ca?" /\ UNCHANGED view
    <3>1. Fresh \in Nat
      BY <1>1 DEF Fresh, TypeOK
    <3>2. QED
      BY <2>1, <3>1, MirrorWrites DEF Secrets
  <2>2. CASE Fail /\ Untouched /\ UNCHANGED view
    BY <2>2, MirrorFails
  <2>3. QED
    BY <1>6, <2>1, <2>2 DEF CreateCookie, Goto
<1>7. QED
  BY <1>2, <1>4, <1>5, <1>6, MirrorGenerates, MirrorMirrors DEF Worker

\* The cache, failures, restarts and users.
LEMMA MirrorOthers ==
  ASSUME MirrorInv, TypeOK', Deliver \/ Environment
  PROVE  MirrorInv'
<1>1. TypeOK
  BY DEF MirrorInv
<1>2. CASE Deliver
  <2>1. /\ PresentCAStaysShown' /\ ShownCAs' \subseteq ShownCAs
        /\ view["ca"] = store["ca"] /\ store["ca"] # None => view'["ca"] = store["ca"]
    BY <1>1, <1>2, ShownDeliver DEF MirrorInv
  <2>2. UNCHANGED <<store, pc, key, writes>>
    BY <1>2 DEF Deliver
  <2>3. NewCAIsNew' /\ MirroredIsShown'
    BY <2>1, <2>2 DEF MirrorInv, NewCAIsNew, MirroredIsShown, Mirrored
  <2>4. QED
    BY <2>1, <2>3 DEF MirrorInv
<1>3. CASE CallFails
  BY <1>3, MirrorFails DEF CallFails
<1>4. CASE Restart
  <2>1. /\ view' = store /\ backlog' = <<>> /\ pc' = "idle"
        /\ UNCHANGED <<store, writes>>
    BY <1>4 DEF Restart, Fail
  <2>2. ShownCAs' = {store["ca"]}
    BY <2>1 DEF ShownCAs
  <2>3. PresentCAStaysShown'
    BY <2>1 DEF PresentCAStaysShown
  <2>4. NewCAIsNew' /\ MirroredIsShown'
    BY <2>1, <2>2 DEF MirrorInv, NewCAIsNew, MirroredIsShown
  <2>5. QED
    BY <2>3, <2>4 DEF MirrorInv
<1>5. ASSUME NEW s \in Secrets, EraseSecret(s) PROVE MirrorInv'
  <2>1. Put(s, None) /\ UNCHANGED <<view, pc, key>> /\ None \in Nat
    BY <1>5 DEF EraseSecret, None
  <2>2. /\ writes \in Nat /\ writes' = writes + 1 /\ key \in Nat
        /\ \A c \in ShownCAs \cup {store["ca"], store["proxy"]} : c \in Nat
    BY <1>1, <2>1, ShownNat DEF TypeOK, Put
  <2>3. CASE s \notin {"ca", "proxy"}
    BY <2>1, <2>3, MirrorWrites
  <2>4. CASE s \in {"ca", "proxy"}
    <3>1. /\ PresentCAStaysShown'
          /\ ShownCAs' \subseteq ShownCAs \cup {store["ca"], None}
      BY <1>1, <2>1, <2>4, ShownPut, ShownPutCA DEF MirrorInv, Secrets
    <3>2. /\ store'[s] = None
          /\ \A c \in {"ca", "proxy"} \ {s} : store'[c] = store[c]
      BY <1>1, <2>1, PutOne DEF Secrets
    <3>3. pc = "ca!" => None < key
      BY <2>2 DEF MirrorInv, NewCAIsNew, None
    <3>4. NewCAIsNew'
      BY <2>1, <2>2, <2>4, <3>1, <3>2, <3>3 DEF MirrorInv, NewCAIsNew, None
    <3>5. MirroredIsShown'
      BY <2>1, <2>4, <3>2 DEF MirrorInv, MirroredIsShown, Mirrored
    <3>6. QED
      BY <3>1, <3>4, <3>5 DEF MirrorInv
  <2>5. QED
    BY <2>3, <2>4
<1>6. QED
  BY <1>2, <1>3, <1>4, <1>5 DEF Environment

\* However stale the cache, what the proxy mirrors of the present CA was found
\* in the cache, and the cache shows that CA until it is erased.
THEOREM MirrorInvariant == Spec => []MirrorInv
<1>1. Init => MirrorInv
  <2> SUFFICES ASSUME Init PROVE MirrorInv
    OBVIOUS
  <2>1. store["ca"] = None /\ store["proxy"] = None /\ ShownCAs = {None}
    BY DEF Init, Absent, Secrets, ShownCAs
  <2>2. QED
    BY <2>1, TypeInit
    DEF Init, MirrorInv, PresentCAStaysShown, NewCAIsNew, MirroredIsShown, None
<1>2. MirrorInv /\ [Next]_vars => MirrorInv'
  <2> SUFFICES ASSUME MirrorInv, [Next]_vars PROVE MirrorInv'
    OBVIOUS
  <2>1. TypeOK'
    BY TypeStep DEF MirrorInv
  <2>2. CASE UNCHANGED vars
    BY <2>1, <2>2 DEF vars, MirrorInv, PresentCAStaysShown, NewCAIsNew, MirroredIsShown,
                      Mirrored, ShownCAs
  <2>3. QED
    BY <2>1, <2>2, MirrorWorker, MirrorOthers DEF Next
<1>3. QED
  BY <1>1, <1>2, PTL DEF Spec

\* Once ensureCFSSLCAProxySecret has handed out the certificate of a CA, the
\* operator never puts another CA in its place.
THEOREM MirroredCAIsKept == Spec => MirroredCAStays
<1> DEFINE Keeps == store["ca"] # None /\ store["proxy"] = store["ca"]
                      => store'["ca"] \in {store["ca"], None}
<1>1. ASSUME MirrorInv, Next PROVE Keeps
  <2>1. TypeOK
    BY <1>1 DEF MirrorInv
  <2>2. CASE \/ StorePrivateKey \/ StorePublicKey \/ StoreSecretKeyBase
             \/ StoreAs("proxy!", "proxy", "idle")
    BY <2>1, <2>2, StoreOne
    DEF StorePrivateKey, StorePublicKey, StoreSecretKeyBase, Secrets
  <2>3. CASE StoreCA
    <3>1. pc = "ca!"
      BY <2>3 DEF StoreCA, StoreAs
    <3>2. QED
      BY <1>1, <3>1 DEF MirrorInv, MirroredIsShown, Mirrored
  <2>4. CASE ErasePrivateKey
    BY <2>1, <2>4, ErasePrivateOne DEF Secrets
  <2>5. CASE CreateCookie
    BY <2>1, <2>5, CreateCookieOne DEF Secrets
  <2>6. CASE \E s \in Secrets : EraseSecret(s)
    BY <2>1, <2>6, EraseOne DEF Secrets
  <2>7. QED
    BY <1>1, <2>1, <2>2, <2>3, <2>4, <2>5, <2>6, Writers
<1>2. MirrorInv /\ [Next]_vars => [Keeps]_vars
  BY <1>1
<1>3. QED
  BY <1>2, MirrorInvariant, PTL DEF Spec, MirroredCAStays
=============================================================================
