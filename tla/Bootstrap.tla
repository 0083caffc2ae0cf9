----------------------------- MODULE Bootstrap -----------------------------
(***************************************************************************)
(* The secrets that ReconcileAstarteResources generates before it deploys  *)
(* anything (internal/reconcile/common.go, utils.go, cfssl.go): the        *)
(* housekeeping key pair, the secret key base, the Erlang cookie, the CA   *)
(* of the devices and the proxy secret that mirrors the CA's certificate.  *)
(*                                                                         *)
(* Each one is "look it up, generate it if it is not there".  The look-up  *)
(* reads the informer's cache, which shows the API server's states one     *)
(* after the other and some time after they were written.  What differs is *)
(* the write: the cookie is created, the others go through CreateOrUpdate, *)
(* which looks the secret up again and updates what it finds by then.      *)
(*                                                                         *)
(* Simplifications: every generated value is distinct; only the contents   *)
(* of the secrets are modelled, so the resourceVersion lock of an update   *)
(* compares the content that was read; the Astarte resource stays, its     *)
(* life is that of AstarteController, and the steps of Reconcile between   *)
(* these are any point at which it may fail.                               *)
(***************************************************************************)
EXTENDS Naturals, Sequences

CONSTANTS
    MaxErased,   \* bound: secrets erased by users
    MaxMishaps   \* bound: calls that fail and restarts of the operator, together

ASSUME BootstrapAssumption == MaxErased \in Nat /\ MaxMishaps \in Nat

Secrets == {"private", "public", "base", "cookie", "ca", "proxy"}
None == 0

VARIABLES
    store,    \* content of each secret at the API server
    view,     \* content of each secret in the informer's cache
    backlog,  \* the states of the store that the cache has yet to show
    queued,   \* the Astarte's key is in the work queue
    pc,       \* where the worker is
    key,      \* what it has generated
    read,     \* what CreateOrUpdate has found
    writes,   \* number of writes so far: numbers the generated values
    spent,    \* how much of each bound has been used
    prompt    \* history: the cache has been up to date at every step of the worker

vars == <<store, view, backlog, queued, pc, key, read, writes, spent, prompt>>

Contents == [Secrets -> Nat]
Absent == [s \in Secrets |-> None]
Bound == [erased |-> MaxErased, mishaps |-> MaxMishaps]
Spend(what) == spent[what] < Bound[what] /\ spent' = [spent EXCEPT ![what] = @ + 1]

-----------------------------------------------------------------------------
(* Steps that the Ensure functions are made of.                            *)

Goto(label) == pc' = label /\ UNCHANGED queued
Fail == pc' = "idle" /\ key' = None /\ read' = None /\ queued' = TRUE

\* A write, which the informer will see.
Put(s, content) ==
    /\ store' = [store EXCEPT ![s] = content]
    /\ backlog' = Append(backlog, store')
    /\ writes' = writes + 1
Untouched == UNCHANGED <<store, backlog, writes>>

\* Get a secret from the cache, to see whether it is there.
Lookup(label, s, found, missing) ==
    /\ pc = label
    /\ Goto(IF view[s] = None THEN missing ELSE found)
    /\ Untouched /\ UNCHANGED <<view, key, read, spent>>

\* Generate a value that no secret has, or take it from another secret, and
\* let CreateOrUpdate look up the one it is for.
Find(label, s, content, next) ==
    /\ pc = label
    /\ Goto(next)
    /\ key' = content /\ read' = view[s]
    /\ Untouched /\ UNCHANGED <<view, spent>>
Fresh == writes + 1

\* CreateOrUpdate creates what it did not find, which fails if it is there by
\* now, and updates what it found, which fails if that is no longer there.
StoreAs(label, s, next) ==
    /\ pc = label
    /\ IF store[s] = read
       THEN Put(s, key) /\ Goto(next) /\ read' = None /\ UNCHANGED key
       ELSE Fail /\ Untouched
    /\ UNCHANGED <<view, spent>>

-----------------------------------------------------------------------------
(* EnsureHousekeepingKey: a private key without the public one is erased.  *)

\* Mutant: the private key is taken to stand for the pair.
LookupPublicKeyByPrivate == Lookup("public?", "private", "base?", "private?")
LookupPublicKey == Lookup("public?", "public", "base?", "private?")
LookupPrivateKey == Lookup("private?", "private", "erase", "generate")

ErasePrivateKey ==
    /\ pc = "erase"
    /\ IF store["private"] # None
       THEN Put("private", None) /\ Goto("generate") /\ UNCHANGED <<key, read>>
       ELSE Fail /\ Untouched
    /\ UNCHANGED <<view, spent>>

GenerateKeyPair == Find("generate", "private", Fresh, "private!")
StorePrivateKey == StoreAs("private!", "private", "public")

\* Mutant: the public key is generated on its own.
FindPublicKeyFresh == Find("public", "public", Fresh, "public!")
FindPublicKey == Find("public", "public", key, "public!")
StorePublicKey == StoreAs("public!", "public", "base?")

\* EnsureSecretKeyBase.
LookupSecretKeyBase == Lookup("base?", "base", "cookie?", "base")
GenerateSecretKeyBase == Find("base", "base", Fresh, "base!")
StoreSecretKeyBase == StoreAs("base!", "base", "cookie?")

\* Mutant: the cookie is written whether or not it is there by now.
CreateCookieForced ==
    /\ pc = "cookie!"
    /\ Put("cookie", Fresh) /\ Goto("ca?")
    /\ UNCHANGED <<view, key, read, spent>>

\* ensureErlangCookieSecret: "we force creation", nothing is looked up again.
LookupCookie == Lookup("cookie?", "cookie", "ca?", "cookie!")
CreateCookie ==
    /\ pc = "cookie!"
    /\ IF store["cookie"] = None
       THEN Put("cookie", Fresh) /\ Goto("ca?") /\ UNCHANGED <<key, read>>
       ELSE Fail /\ Untouched
    /\ UNCHANGED <<view, spent>>

\* Mutant: the CA is written without looking for it.
LookupCANever == Lookup("ca?", "ca", "ca", "ca")

\* ensureCFSSLCASecret and createCFSSLCASecret.
LookupCA == Lookup("ca?", "ca", "proxy?", "ca")
GenerateCA == Find("ca", "ca", Fresh, "ca!")
StoreCA == StoreAs("ca!", "ca", "proxy?")

\* ensureCFSSLCAProxySecret: without a CA in the cache it fails.
MirrorCA ==
    \/ view["ca"] # None /\ Find("proxy?", "proxy", view["ca"], "proxy!")
    \/ /\ pc = "proxy?" /\ view["ca"] = None
       /\ Fail /\ Untouched /\ UNCHANGED <<view, spent>>

\* CreateOrUpdate leaves a secret that is already as it should be.
StoreProxy ==
    \/ read # key /\ StoreAs("proxy!", "proxy", "idle")
    \/ /\ pc = "proxy!" /\ read = key
       /\ Goto("idle") /\ key' = None /\ read' = None
       /\ Untouched /\ UNCHANGED <<view, spent>>

Start ==
    /\ pc = "idle" /\ queued
    /\ pc' = "public?" /\ queued' = FALSE
    /\ Untouched /\ UNCHANGED <<view, key, read, spent>>

\* Any call may return an error.
CallFails ==
    /\ pc # "idle"
    /\ Spend("mishaps")
    /\ Fail
    /\ Untouched /\ UNCHANGED <<view, prompt>>

Worker ==
    /\ \/ Start
       \/ LookupPublicKey \/ LookupPrivateKey \/ ErasePrivateKey
       \/ GenerateKeyPair \/ StorePrivateKey \/ FindPublicKey \/ StorePublicKey
       \/ LookupSecretKeyBase \/ GenerateSecretKeyBase \/ StoreSecretKeyBase
       \/ LookupCookie \/ CreateCookie
       \/ LookupCA \/ GenerateCA \/ StoreCA \/ MirrorCA \/ StoreProxy
    /\ prompt' = (prompt /\ backlog = <<>>)

-----------------------------------------------------------------------------
\* Mutant: Secrets are not watched.
DeliverSilently ==
    /\ backlog # <<>>
    /\ view' = Head(backlog) /\ backlog' = Tail(backlog)
    /\ UNCHANGED <<store, queued, pc, key, read, writes, spent, prompt>>

\* The informer shows the next state; the watch on Secrets enqueues the key.
Deliver ==
    /\ backlog # <<>>
    /\ view' = Head(backlog) /\ backlog' = Tail(backlog)
    /\ queued' = TRUE
    /\ UNCHANGED <<store, pc, key, read, writes, spent, prompt>>

\* The next process starts from a complete list.
Restart ==
    /\ Spend("mishaps")
    /\ Fail
    /\ view' = store /\ backlog' = <<>>
    /\ UNCHANGED <<store, writes, prompt>>

\* Users erase a secret, to have it generated again.
EraseSecret(s) ==
    /\ store[s] # None
    /\ Spend("erased")
    /\ Put(s, None)
    /\ UNCHANGED <<view, queued, pc, key, read, prompt>>

Environment == CallFails \/ Restart \/ \E s \in Secrets : EraseSecret(s)

Init ==
    /\ store = Absent /\ view = Absent /\ backlog = <<>>
    /\ queued = TRUE /\ pc = "idle" /\ key = None /\ read = None
    /\ writes = 0 /\ spent = [b \in DOMAIN Bound |-> 0] /\ prompt = TRUE

Next == Worker \/ Deliver \/ Environment

Spec == Init /\ [][Next]_vars
FairSpec == Spec /\ WF_vars(Worker) /\ WF_vars(Deliver)

-----------------------------------------------------------------------------
Labels == {"idle", "public?", "private?", "erase", "generate", "private!",
           "public", "public!", "base?", "base", "base!", "cookie?", "cookie!",
           "ca?", "ca", "ca!", "proxy?", "proxy!"}

TypeOK ==
    /\ store \in Contents /\ view \in Contents /\ backlog \in Seq(Contents)
    /\ queued \in BOOLEAN /\ pc \in Labels
    /\ key \in Nat /\ read \in Nat /\ writes \in Nat
    /\ spent \in [DOMAIN Bound -> Nat] /\ prompt \in BOOLEAN

\* Pods that form the Erlang cluster started with the cookie: however stale
\* the cache, no Reconcile replaces it ("for no reason in the world we want to
\* even think about updating this").
Cookie == INSTANCE WriteOnce WITH value <- store["cookie"]
CookieWriteOnce == Cookie!Spec

\* "We want to ensure that we create / update the secret ONLY if it doesn't
\* exist" (ensureCFSSLCASecret).  It is not so: if the cache shows the CA only
\* after the look-up, CreateOrUpdate finds it and puts another in its place.
CA == INSTANCE WriteOnce WITH value <- store["ca"]
CAWriteOnce == CA!Spec

\* "If there is none, it creates a new one" (EnsureSecretKeyBase): the same.
Base == INSTANCE WriteOnce WITH value <- store["base"]
BaseWriteOnce == Base!Spec

\* What is left of it: once the proxy secret hands out the certificate of the
\* CA (ensureCFSSLCAProxySecret), no Reconcile puts another CA in its place,
\* however stale the cache, and whatever fails, restarts or is erased.
MirroredCAStays ==
    [][store["ca"] # None /\ store["proxy"] = store["ca"]
          => store'["ca"] \in {store["ca"], None}]_vars

\* "makes sure that a valid Housekeeping key is available": what users sign
\* with the private key, Housekeeping accepts.
Pair ==
    store["public"] # None /\ store["private"] # None =>
       store["public"] = store["private"]

\* So it is as long as the operator has read its own writes, whatever fails,
\* restarts or is erased between the two halves (EnsureHousekeepingKey).
KeyPairMatches == prompt => Pair

\* With any cache, once the operator has dealt with whatever happened.  It is
\* not so: nothing compares the two halves.
KeyPairSettles == <>[]Pair

\* Whatever fails, restarts or is erased, in the end every secret that the
\* pods mount is there and the proxy has the certificate of the CA.
Converges ==
    <>[](/\ \A s \in {"public", "base", "cookie", "ca"} : store[s] # None
         /\ store["proxy"] = store["ca"])

-----------------------------------------------------------------------------
(* Why an operator that has read its own writes never replaces a secret.   *)

\* The cache, once it has caught up, shows the store.
Synced == IF backlog = <<>> THEN view = store ELSE backlog[Len(backlog)] = store

\* What is about to be generated is not there, and stays away: the worker is
\* the only one that writes it.
StillMissing ==
    /\ pc \in {"private?", "erase", "generate", "private!", "public", "public!"}
          => store["public"] = None
    /\ pc \in {"base", "base!"} => store["base"] = None
    /\ pc \in {"ca", "ca!"} => store["ca"] = None
    /\ pc \in {"public!", "base!", "ca!"} => read = None

\* Between the two halves of the key pair.
HalfPair == pc \in {"public", "public!"} => store["private"] \in {None, key}

PromptInv == TypeOK /\ Synced /\ (prompt => StillMissing /\ HalfPair /\ Pair)

-----------------------------------------------------------------------------
(* Why a CA that is mirrored stays.                                        *)

\* What the cache shows of the CA, and has yet to show.
ShownCAs == {view["ca"]} \cup {backlog[i]["ca"] : i \in DOMAIN backlog}

\* A CA is generated once: a cache that shows the present one shows nothing
\* else from then on.
PresentCAStaysShown ==
    store["ca"] # None =>
       /\ view["ca"] = store["ca"] =>
            \A i \in DOMAIN backlog : backlog[i]["ca"] = store["ca"]
       /\ \A i, j \in DOMAIN backlog :
            i < j /\ backlog[i]["ca"] = store["ca"] => backlog[j]["ca"] = store["ca"]

\* The CA that is about to be written is newer than all that were.
NewCAIsNew ==
    /\ \A c \in ShownCAs \cup {store["ca"], store["proxy"]} :
          c <= writes /\ (pc = "ca!" => c < key)
    /\ pc = "ca!" => key <= writes + 1
    /\ pc = "proxy!" => key <= writes

\* What is mirrored, or is about to be, was found in the cache: it is there, and
\* no Reconcile that has missed it is under way.
Mirrored(c) == store["proxy"] = c \/ (pc = "proxy!" /\ key = c)
MirroredIsShown ==
    store["ca"] # None /\ Mirrored(store["ca"]) =>
       view["ca"] = store["ca"] /\ pc \notin {"ca", "ca!"}

MirrorInv == TypeOK /\ PresentCAStaysShown /\ NewCAIsNew /\ MirroredIsShown
=============================================================================
