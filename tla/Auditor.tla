------------------------------- MODULE Auditor -------------------------------
(***************************************************************************)
(* The auditor (kt/auditor.go): it keeps its own copy of the key map,      *)
(* checks and applies the updates that anybody sends it for an epoch,      *)
(* signs the digest and serves it.  Updates come over the network, from    *)
(* whoever calls: they may be repeated, out of order, malformed or         *)
(* contradictory, and RPC threads run concurrently.                        *)
(*                                                                         *)
(* Update is split into check, one step per applied label (Go's map order  *)
(* is arbitrary) and sign; the mutex is explicit.                          *)
(***************************************************************************)
EXTENDS KeyMaps, Integers, Sequences

CONSTANTS
    Thread,     \* goroutines that call the auditor's methods
    Label,      \* map labels: byte strings of length HashLen
    BadLabel,   \* byte strings of other lengths
    Commit,     \* commitments in map values
    JunkVal,    \* byte strings that do not decode exactly to a map value
    ServSig,    \* server signatures, which the auditor stores unchecked
    NoOne,      \* the holder of the free mutex
    MaxEpochs   \* no Update is submitted once this many epochs are signed

ASSUME LabelAssumption == Label \cap BadLabel = {} /\ JunkVal \notin [epoch : Nat, commit : Commit]
ASSUME MaxEpochsAssumption == MaxEpochs \in Nat
ASSUME NoOneAssumption == NoOne \notin Thread

VARIABLES
    mu,         \* the mutex's holder
    keyMap,     \* label -> map value
    histInfo,   \* signed digests; epoch e is entry e+1
    pc,         \* where each thread is
    req,        \* its request
    nextEp,     \* the epoch its update is for
    todo,       \* labels of its update that are not applied yet
    resp,       \* its reply
    panicked    \* an std.Assert failed

dataVars == <<keyMap, histInfo>>
vars == <<mu, keyMap, histInfo, pc, req, nextEp, todo, resp, panicked>>

AdtrKey == "adtr"
MapVal == [epoch : Nat, commit : Commit]

AdtrEpochInfo ==
    [dig : SUBSET (Label \X MapVal), servSig : ServSig,
     adtrSig : [key : {AdtrKey}, epoch : Nat, dig : SUBSET (Label \X MapVal)]]

\* The values a request carries: the epochs are those the bounds make matter.
ReqVal == [epoch : 0..MaxEpochs, commit : Commit] \cup {JunkVal}
UpdateReq ==
    [op : {"update"}, updates : UNION {[L -> ReqVal] : L \in SUBSET (Label \cup BadLabel)},
     sig : ServSig]
GetReq == [op : {"get"}, epoch : 0..MaxEpochs]

NoReq == [op |-> "none"]
ErrResp == [err |-> TRUE]

Init ==
    /\ mu = NoOne
    /\ keyMap = EmptyMap
    /\ histInfo = <<>>
    /\ pc = [t \in Thread |-> "idle"]
    /\ req = [t \in Thread |-> NoReq]
    /\ nextEp = [t \in Thread |-> 0]
    /\ todo = [t \in Thread |-> {}]
    /\ resp = [t \in Thread |-> ErrResp]
    /\ panicked = FALSE

-----------------------------------------------------------------------------
(* checkUpd; TRUE for success. *)

\* Seeded faults: one of the tests is left out.
AnyLength(keys, epoch, label, val) ==
    label \notin DOMAIN keys /\ val \in MapVal /\ val.epoch = epoch
AnyLabel(keys, epoch, label, val) ==
    label \in Label /\ val \in MapVal /\ val.epoch = epoch
AnyVal(keys, epoch, label, val) ==
    label \in Label /\ label \notin DOMAIN keys /\ val \in MapVal => val.epoch = epoch
AnyEpoch(keys, epoch, label, val) ==
    label \in Label /\ label \notin DOMAIN keys /\ val \in MapVal

CheckOneUpd(keys, epoch, label, val) ==
    /\ label \in Label
    /\ label \notin DOMAIN keys
    /\ val \in MapVal
    /\ val.epoch = epoch

CheckUpd(keys, epoch, upd) ==
    \A label \in DOMAIN upd : CheckOneUpd(keys, epoch, label, upd[label])

-----------------------------------------------------------------------------
Goto(t, place) == pc' = [pc EXCEPT ![t] = place]

Call(t) ==
    /\ pc[t] = "idle"
    /\ \/ /\ Len(histInfo) < MaxEpochs
          /\ \E r \in UpdateReq : req' = [req EXCEPT ![t] = r]
       \/ \E r \in GetReq : req' = [req EXCEPT ![t] = r]
    /\ Goto(t, "lock")
    /\ UNCHANGED <<mu, dataVars, nextEp, todo, resp, panicked>>

\* Seeded faults: no mutual exclusion; a path that returns with the lock held.
NoLock(t) ==
    /\ pc[t] = "lock"
    /\ Goto(t, "locked")
    /\ UNCHANGED <<mu, dataVars, req, nextEp, todo, resp, panicked>>
NoUnlock(t) == mu' = mu

Lock(t) ==
    /\ pc[t] = "lock"
    /\ mu = NoOne
    /\ mu' = t
    /\ Goto(t, "locked")
    /\ UNCHANGED <<dataVars, req, nextEp, todo, resp, panicked>>

Unlock(t) == mu' = NoOne

\* Update, first part: check all entries before any is applied.
Check(t) ==
    /\ pc[t] = "locked"
    /\ req[t].op = "update"
    /\ IF CheckUpd(keyMap, Len(histInfo), req[t].updates)
       THEN /\ nextEp' = [nextEp EXCEPT ![t] = Len(histInfo)]
            /\ todo' = [todo EXCEPT ![t] = DOMAIN req[t].updates]
            /\ Goto(t, "apply")
            /\ UNCHANGED <<mu, resp>>
       ELSE /\ resp' = [resp EXCEPT ![t] = ErrResp]
            /\ Unlock(t)
            /\ Goto(t, "ret")
            /\ UNCHANGED <<nextEp, todo>>
    /\ UNCHANGED <<dataVars, req, panicked>>

\* applyUpd, one iteration: merkle.Tree.Put fails on labels of other lengths.
Apply(t) ==
    /\ pc[t] = "apply"
    /\ \E label \in todo[t] :
        /\ todo' = [todo EXCEPT ![t] = @ \ {label}]
        /\ IF label \in Label
           THEN /\ keyMap' = MapPut(keyMap, label, req[t].updates[label])
                /\ UNCHANGED panicked
           ELSE /\ panicked' = TRUE
                /\ UNCHANGED keyMap
    /\ UNCHANGED <<mu, histInfo, pc, req, nextEp, resp>>

\* Update, last part: sign and record the digest.
SignDig(t) ==
    /\ pc[t] = "apply"
    /\ todo[t] = {}
    /\ histInfo' = Append(histInfo,
            [dig |-> Digest(keyMap), servSig |-> req[t].sig,
             adtrSig |-> Sign(AdtrKey, nextEp[t], Digest(keyMap))])
    /\ resp' = [resp EXCEPT ![t] = [err |-> FALSE]]
    /\ Unlock(t)
    /\ Goto(t, "ret")
    /\ UNCHANGED <<keyMap, req, nextEp, todo, panicked>>

Get(t) ==
    /\ pc[t] = "locked"
    /\ req[t].op = "get"
    /\ resp' = [resp EXCEPT ![t] =
            IF req[t].epoch >= Len(histInfo)
            THEN ErrResp
            ELSE [err |-> FALSE, info |-> histInfo[req[t].epoch + 1]]]
    /\ Unlock(t)
    /\ Goto(t, "ret")
    /\ UNCHANGED <<dataVars, req, nextEp, todo, panicked>>

Return(t) ==
    /\ pc[t] = "ret"
    /\ Goto(t, "idle")
    /\ req' = [req EXCEPT ![t] = NoReq]
    /\ nextEp' = [nextEp EXCEPT ![t] = 0]
    /\ resp' = [resp EXCEPT ![t] = ErrResp]
    /\ UNCHANGED <<mu, dataVars, todo, panicked>>

-----------------------------------------------------------------------------
\* What a thread does once it has made a call.
Run(t) == Lock(t) \/ Check(t) \/ Apply(t) \/ SignDig(t) \/ Get(t) \/ Return(t)

Next == \E t \in Thread : Call(t) \/ Run(t)

Spec == Init /\ [][Next]_vars

\* Goroutines run, and a sync.Mutex in starvation mode is granted in the end.
Fairness == \A t \in Thread : SF_vars(Run(t))

FairSpec == Spec /\ Fairness

-----------------------------------------------------------------------------
(* Properties. *)

\* Every variable has the values the code can give it; in particular only exact
\* encodings of map values get into the key map.
TypeOK ==
    /\ mu \in Thread \cup {NoOne}
    /\ DOMAIN keyMap \subseteq Label
    /\ keyMap \in [DOMAIN keyMap -> MapVal]
    /\ histInfo \in Seq(AdtrEpochInfo)
    /\ pc \in [Thread -> {"idle", "lock", "locked", "apply", "ret"}]
    /\ req \in [Thread -> UpdateReq \cup GetReq \cup {NoReq}]
    /\ nextEp \in [Thread -> Nat]
    /\ todo \in [Thread -> SUBSET (Label \cup BadLabel)]
    /\ panicked \in BOOLEAN

\* checkUpd rejects whatever applyUpd's std.Assert would fail on.
NoPanic == ~panicked

\* The entries the map held at the end of an epoch, by the epochs in its values.
EntriesThrough(epoch) == {entry \in Digest(keyMap) : entry[2].epoch <= epoch}

\* Every digest ever signed is the digest of exactly those entries of today's
\* map that are stamped with its epoch or an earlier one, and the signature is
\* for the epoch it is served under: no entry was overwritten, added late or
\* dropped, even while an update is half applied.
HistExact ==
    \A epoch \in 0..(Len(histInfo) - 1) :
        LET info == histInfo[epoch + 1] IN
        /\ info.dig = EntriesThrough(epoch)
        /\ info.adtrSig = Sign(AdtrKey, epoch, info.dig)

\* Whenever the mutex is free the last digest is that of the whole map: an
\* update is applied entirely or not at all.
LastCurrent ==
    mu = NoOne =>
        IF histInfo = <<>> THEN keyMap = EmptyMap
        ELSE histInfo[Len(histInfo)].dig = Digest(keyMap)

\* Every call returns.
CallsReturn == \A t \in Thread : (pc[t] # "idle") ~> (pc[t] = "idle")

-----------------------------------------------------------------------------
(* Auditor implements AuditLog: a call takes effect when it unlocks. *)

ResultOf(t) ==
    IF resp[t].err
    THEN [err |-> TRUE]
    ELSE IF req[t].op = "update"
    THEN [err |-> FALSE]
    ELSE [err |-> FALSE, epoch |-> resp[t].info.adtrSig.epoch,
          dig |-> resp[t].info.dig, servSig |-> resp[t].info.servSig]

CallOf(t) ==
    CASE pc[t] = "idle" -> [state |-> "idle"]
      [] pc[t] = "ret" -> [state |-> "done", req |-> req[t], result |-> ResultOf(t)]
      [] OTHER -> [state |-> "pending", req |-> req[t]]

Digs == [i \in DOMAIN histInfo |-> histInfo[i].dig]
ServSigs == [i \in DOMAIN histInfo |-> histInfo[i].servSig]

Parses(label, val) == label \in Label /\ val \in MapVal

Log == INSTANCE AuditLog WITH
    Request <- UpdateReq \cup GetReq, WellFormed <- Parses,
    log <- Digs, sigs <- ServSigs, op <- [t \in Thread |-> CallOf(t)]

\* Linearizability: concurrent, repeated and malformed updates behave as if each
\* were checked and applied at one instant against the whole log.
Linearizable == Log!Spec
=============================================================================
