---------------------------- MODULE AuditorProofs ----------------------------
(***************************************************************************)
(* The auditor's invariants hold for any number of threads, labels, values *)
(* and epochs.                                                             *)
(*                                                                         *)
(* The argument: the mutex makes the thread that applies an update the     *)
(* only one, so that the epoch it read and the labels it found absent are  *)
(* still current when it applies them (ApplyInv).  Hence every new entry   *)
(* is stamped with the epoch that is signed next (EpochInv) and no earlier *)
(* digest is affected (HistExact); when nobody applies, the entries are    *)
(* those of the signed epochs, and the last digest is that of the map.     *)
(***************************************************************************)
EXTENDS Auditor, TLAPS

\* The threads between Lock and Unlock are the holder of the mutex.
MutexInv ==
    \A t \in Thread : pc[t] \in {"locked", "apply"} <=> mu = t

\* The update being applied passed its checks, and none of it is stale.
ApplyInv ==
    \A t \in Thread : pc[t] = "apply" =>
        /\ req[t].op = "update"
        /\ nextEp[t] = Len(histInfo)
        /\ todo[t] \subseteq DOMAIN req[t].updates
        /\ \A label \in todo[t] :
            /\ label \in Label
            /\ label \notin DOMAIN keyMap
            /\ req[t].updates[label] \in MapVal
            /\ req[t].updates[label].epoch = Len(histInfo)

\* Entries are stamped with signed epochs, but for those of a running update.
EpochInv ==
    \A label \in DOMAIN keyMap :
        /\ keyMap[label].epoch <= Len(histInfo)
        /\ keyMap[label].epoch = Len(histInfo) => \E t \in Thread : pc[t] = "apply"

IInv ==
    /\ TypeOK
    /\ NoPanic
    /\ MutexInv
    /\ ApplyInv
    /\ EpochInv
    /\ HistExact

-----------------------------------------------------------------------------
(* Facts about key maps. *)

\* Putting a new label adds one entry to the digest, and changes no other.
LEMMA DigestPut ==
    ASSUME NEW km, NEW label, NEW val, label \notin DOMAIN km
    PROVE  Digest(MapPut(km, label, val)) = Digest(km) \cup {<<label, val>>}
BY DEF Digest, MapPut

\* A key map's digest consists of pairs of a label and a value.
LEMMA DigestType ==
    ASSUME TypeOK
    PROVE  Digest(keyMap) \in SUBSET (Label \X MapVal)
BY DEF TypeOK, Digest

-----------------------------------------------------------------------------
(* The invariant holds initially. *)

\* It holds when the auditor starts.
LEMMA InitIInv == ASSUME Init PROVE IInv
<1>1. keyMap = EmptyMap /\ DOMAIN keyMap = {}
  BY DEF Init, EmptyMap
<1>2. histInfo = <<>> /\ Len(histInfo) = 0 /\ histInfo \in Seq(AdtrEpochInfo)
  BY DEF Init
<1>3. TypeOK
  BY <1>1, <1>2 DEF Init, TypeOK, EmptyMap
<1>4. MutexInv /\ ApplyInv /\ NoPanic
  BY NoOneAssumption DEF Init, MutexInv, ApplyInv, NoPanic
<1>5. EpochInv /\ HistExact
  BY <1>1, <1>2 DEF EpochInv, HistExact
<1> QED
  BY <1>3, <1>4, <1>5 DEF IInv

-----------------------------------------------------------------------------
(* Every step preserves it. *)

\* Steps that leave the map, the history and all applying threads alone.
LEMMA QuietStep ==
    ASSUME IInv, UNCHANGED <<keyMap, histInfo>>,
           \A t \in Thread : pc'[t] = "apply" <=> pc[t] = "apply",
           \A t \in Thread : pc[t] = "apply" =>
               req'[t] = req[t] /\ nextEp'[t] = nextEp[t] /\ todo'[t] = todo[t]
    PROVE  ApplyInv' /\ EpochInv' /\ HistExact'
<1>1. ApplyInv'
  BY DEF IInv, ApplyInv
<1>2. EpochInv'
  BY DEF IInv, EpochInv
<1>3. HistExact'
  BY DEF IInv, HistExact, EntriesThrough
<1> QED
  BY <1>1, <1>2, <1>3

\* A call touches nothing but its thread.
LEMMA CallIInv ==
    ASSUME IInv, NEW t \in Thread, Call(t)
    PROVE  IInv'
<1>1. TypeOK'
  BY DEF IInv, TypeOK, Call, Goto, dataVars
<1>2. MutexInv'
  BY DEF IInv, TypeOK, MutexInv, Call, Goto
<1>3. ApplyInv' /\ EpochInv' /\ HistExact'
  BY QuietStep DEF IInv, TypeOK, Call, Goto, dataVars
<1>4. NoPanic'
  BY DEF IInv, NoPanic, Call
<1> QED
  BY <1>1, <1>2, <1>3, <1>4 DEF IInv

\* Taking the mutex keeps it.
LEMMA LockIInv ==
    ASSUME IInv, NEW t \in Thread, Lock(t)
    PROVE  IInv'
<1>1. TypeOK'
  BY DEF IInv, TypeOK, Lock, Goto, dataVars
<1>2. MutexInv'
  BY NoOneAssumption DEF IInv, TypeOK, MutexInv, Lock, Goto
<1>3. ApplyInv' /\ EpochInv' /\ HistExact'
  BY QuietStep DEF IInv, TypeOK, Lock, Goto, dataVars
<1>4. NoPanic'
  BY DEF IInv, NoPanic, Lock
<1> QED
  BY <1>1, <1>2, <1>3, <1>4 DEF IInv

\* An accepted update is all new and stamped with the next epoch.
LEMMA CheckIInv ==
    ASSUME IInv, NEW t \in Thread, Check(t)
    PROVE  IInv'
<1> DEFINE upd == req[t].updates
<1>1. mu = t /\ \A s \in Thread : pc[s] = "apply" => FALSE
  BY DEF IInv, MutexInv, Check
<1>2. Len(histInfo) \in Nat /\ req[t] \in UpdateReq
  <2>1. histInfo \in Seq(AdtrEpochInfo)
    BY DEF IInv, TypeOK
  <2>2. req[t] \in UpdateReq \cup GetReq \cup {NoReq} /\ req[t].op = "update"
    BY DEF IInv, TypeOK, Check
  <2>3. req[t] \in UpdateReq
    BY <2>2 DEF GetReq, NoReq
  <2> QED
    BY <2>1, <2>3
<1>3. DOMAIN upd \in SUBSET (Label \cup BadLabel)
  BY <1>2 DEF UpdateReq
<1>4. TypeOK'
  BY <1>2, <1>3 DEF IInv, TypeOK, Check, Goto, Unlock, dataVars
<1>5. MutexInv'
  BY <1>1, NoOneAssumption DEF IInv, TypeOK, MutexInv, Check, Goto, Unlock
<1>6. NoPanic'
  BY DEF IInv, NoPanic, Check
<1>7. HistExact'
  BY DEF IInv, HistExact, EntriesThrough, Check, dataVars
<1>8. CASE CheckUpd(keyMap, Len(histInfo), upd)
  <2>1. ApplyInv'
    BY <1>1, <1>8 DEF IInv, TypeOK, ApplyInv, Check, CheckUpd, CheckOneUpd, Goto, dataVars
  <2>2. EpochInv'
    BY <1>1, <1>8 DEF IInv, TypeOK, EpochInv, Check, Goto, dataVars
  <2> QED
    BY <1>4, <1>5, <1>6, <1>7, <2>1, <2>2 DEF IInv
<1>9. CASE ~CheckUpd(keyMap, Len(histInfo), upd)
  <2>1. pc' = [pc EXCEPT ![t] = "ret"] /\ UNCHANGED <<keyMap, histInfo>>
    BY <1>9 DEF Check, Goto, dataVars
  <2>2. ApplyInv'
    BY <1>1, <2>1 DEF IInv, TypeOK, ApplyInv
  <2>3. EpochInv'
    BY <1>1, <2>1 DEF IInv, TypeOK, EpochInv
  <2> QED
    BY <1>4, <1>5, <1>6, <1>7, <2>2, <2>3 DEF IInv
<1> QED
  BY <1>8, <1>9

\* A label is put while the only applying thread holds the mutex: the entry is
\* stamped with the epoch to be signed and replaces none.
LEMMA ApplyIInv ==
    ASSUME IInv, NEW t \in Thread, Apply(t)
    PROVE  IInv'
<1> DEFINE upd == req[t].updates
<1>1. mu = t /\ \A s \in Thread : pc[s] = "apply" => s = t
  BY DEF IInv, MutexInv, Apply
<1>2. PICK label \in todo[t] :
        /\ todo' = [todo EXCEPT ![t] = @ \ {label}]
        /\ IF label \in Label
           THEN /\ keyMap' = MapPut(keyMap, label, upd[label])
                /\ UNCHANGED panicked
           ELSE /\ panicked' = TRUE
                /\ UNCHANGED keyMap
  BY DEF Apply
<1>3. /\ label \in Label
      /\ label \notin DOMAIN keyMap
      /\ upd[label] \in MapVal
      /\ upd[label].epoch = Len(histInfo)
  BY DEF IInv, ApplyInv, Apply
<1>4. keyMap' = MapPut(keyMap, label, upd[label]) /\ UNCHANGED panicked
  BY <1>2, <1>3
<1>5. UNCHANGED <<mu, histInfo, pc, req, nextEp, resp>>
  BY DEF Apply
<1>6. DOMAIN keyMap' = DOMAIN keyMap \cup {label}
      /\ \A l \in DOMAIN keyMap' :
            keyMap'[l] = IF l = label THEN upd[label] ELSE keyMap[l]
  BY <1>4 DEF MapPut
<1>7. Len(histInfo) \in Nat
  BY DEF IInv, TypeOK
<1>8. TypeOK'
  <2>1. DOMAIN keyMap' \subseteq Label
    BY <1>3, <1>6 DEF IInv, TypeOK
  <2>2. keyMap' \in [DOMAIN keyMap' -> MapVal]
    BY <1>3, <1>4 DEF IInv, TypeOK, MapPut
  <2>3. todo' \in [Thread -> SUBSET (Label \cup BadLabel)]
    BY <1>2 DEF IInv, TypeOK
  <2> QED
    BY <2>1, <2>2, <2>3, <1>4, <1>5 DEF IInv, TypeOK
<1>9. MutexInv' /\ NoPanic'
  BY <1>4, <1>5 DEF IInv, MutexInv, NoPanic
<1>10. ApplyInv'
  <2> SUFFICES ASSUME NEW s \in Thread, pc[s] = "apply"
               PROVE  /\ req[s].op = "update"
                      /\ nextEp[s] = Len(histInfo)
                      /\ todo'[s] \subseteq DOMAIN req[s].updates
                      /\ \A l \in todo'[s] :
                            /\ l \in Label
                            /\ l \notin DOMAIN keyMap'
                            /\ req[s].updates[l] \in MapVal
                            /\ req[s].updates[l].epoch = Len(histInfo)
    BY <1>5 DEF ApplyInv
  <2>1. s = t /\ todo'[t] = todo[t] \ {label}
    BY <1>1, <1>2 DEF IInv, TypeOK
  <2> QED
    BY <2>1, <1>6 DEF IInv, ApplyInv
<1>11. EpochInv'
  BY <1>3, <1>5, <1>6, <1>7 DEF IInv, EpochInv, Apply
<1>12. HistExact'
  <2> SUFFICES ASSUME NEW epoch \in 0..(Len(histInfo) - 1)
               PROVE  EntriesThrough(epoch)' = EntriesThrough(epoch)
    BY <1>5 DEF IInv, HistExact
  <2>1. Digest(keyMap') = Digest(keyMap) \cup {<<label, upd[label]>>}
    BY <1>3, <1>4, DigestPut
  <2>2. ~(upd[label].epoch <= epoch)
    BY <1>3, <1>7
  <2> QED
    BY <2>1, <2>2 DEF EntriesThrough
<1> QED
  BY <1>8, <1>9, <1>10, <1>11, <1>12 DEF IInv

\* When all labels are applied the map holds exactly the entries stamped with
\* the epochs up to the one that is signed.
LEMMA SignDigIInv ==
    ASSUME IInv, NEW t \in Thread, SignDig(t)
    PROVE  IInv'
<1> DEFINE dig == Digest(keyMap)
           info == [dig |-> dig, servSig |-> req[t].sig,
                    adtrSig |-> Sign(AdtrKey, nextEp[t], dig)]
<1>1. mu = t /\ \A s \in Thread : pc[s] = "apply" => s = t
  BY DEF IInv, MutexInv, SignDig
<1>2. /\ req[t].op = "update"
      /\ nextEp[t] = Len(histInfo)
  BY DEF IInv, ApplyInv, SignDig
<1>3. /\ pc' = [pc EXCEPT ![t] = "ret"]
      /\ histInfo' = Append(histInfo, info)
      /\ mu' = NoOne
      /\ UNCHANGED <<keyMap, req, nextEp, todo, panicked>>
  BY DEF SignDig, Goto, Unlock
<1>4. histInfo \in Seq(AdtrEpochInfo) /\ Len(histInfo) \in Nat
  BY DEF IInv, TypeOK
<1>5. info \in AdtrEpochInfo
  <2>1. dig \in SUBSET (Label \X MapVal)
    BY DigestType DEF IInv
  <2>2. req[t].sig \in ServSig
    <3>1. req[t] \in UpdateReq \cup GetReq \cup {NoReq}
      BY DEF IInv, TypeOK
    <3>2. req[t] \in UpdateReq
      BY <1>2, <3>1 DEF GetReq, NoReq
    <3> QED
      BY <3>2 DEF UpdateReq
  <2> QED
    BY <1>2, <1>4, <2>1, <2>2 DEF AdtrEpochInfo, Sign
<1>6. /\ histInfo' \in Seq(AdtrEpochInfo)
      /\ Len(histInfo') = Len(histInfo) + 1
      /\ histInfo'[Len(histInfo) + 1] = info
      /\ \A i \in 1..Len(histInfo) : histInfo'[i] = histInfo[i]
  <2> HIDE DEF info
  <2> QED
    BY <1>3, <1>4, <1>5
<1>7. TypeOK'
  BY <1>3, <1>6 DEF IInv, TypeOK
<1>8. MutexInv' /\ NoPanic'
  BY <1>1, <1>3, NoOneAssumption DEF IInv, TypeOK, MutexInv, NoPanic
<1>9. \A s \in Thread : pc'[s] # "apply"
  BY <1>1, <1>3 DEF IInv, TypeOK
<1>10. ApplyInv'
  BY <1>9 DEF ApplyInv
<1>11. EpochInv'
  <2> SUFFICES ASSUME NEW label \in DOMAIN keyMap
               PROVE  keyMap[label].epoch < Len(histInfo')
    BY <1>3, <1>4, <1>6, <1>9 DEF EpochInv, IInv, TypeOK, MapVal
  <2>1. keyMap[label] \in MapVal /\ keyMap[label].epoch <= Len(histInfo)
    BY DEF IInv, TypeOK, EpochInv
  <2> QED
    BY <2>1, <1>4, <1>6 DEF MapVal
<1>12. HistExact'
  <2> SUFFICES ASSUME NEW epoch \in 0..Len(histInfo)
               PROVE  /\ histInfo'[epoch + 1].dig = EntriesThrough(epoch)
                      /\ histInfo'[epoch + 1].adtrSig
                            = Sign(AdtrKey, epoch, histInfo'[epoch + 1].dig)
    BY <1>3, <1>4, <1>6 DEF HistExact, EntriesThrough
  <2>1. CASE epoch < Len(histInfo)
    <3>1. epoch \in 0..(Len(histInfo) - 1) /\ epoch + 1 \in 1..Len(histInfo)
      BY <2>1, <1>4
    <3>2. histInfo'[epoch + 1] = histInfo[epoch + 1]
      BY <3>1, <1>6
    <3> QED
      BY <3>1, <3>2 DEF IInv, HistExact
  <2>2. CASE epoch = Len(histInfo)
    <3>1. \A entry \in dig : entry[2].epoch <= epoch
      BY <2>2 DEF IInv, EpochInv, Digest
    <3>2. EntriesThrough(epoch) = dig
      BY <3>1 DEF EntriesThrough
    <3> QED
      BY <2>2, <3>2, <1>2, <1>6
  <2> QED
    BY <2>1, <2>2, <1>4
<1> QED
  BY <1>7, <1>8, <1>10, <1>11, <1>12 DEF IInv

\* Get reads and unlocks.
LEMMA GetIInv ==
    ASSUME IInv, NEW t \in Thread, Get(t)
    PROVE  IInv'
<1>1. mu = t /\ \A s \in Thread : pc[s] \in {"locked", "apply"} => s = t
  BY DEF IInv, MutexInv, Get
<1>2. TypeOK'
  BY DEF IInv, TypeOK, Get, Goto, Unlock, dataVars
<1>3. MutexInv'
  BY <1>1, NoOneAssumption DEF IInv, TypeOK, MutexInv, Get, Goto, Unlock
<1>4. ApplyInv' /\ EpochInv' /\ HistExact'
  BY QuietStep DEF IInv, TypeOK, Get, Goto, dataVars
<1>5. NoPanic'
  BY DEF IInv, NoPanic, Get
<1> QED
  BY <1>2, <1>3, <1>4, <1>5 DEF IInv

\* A return touches nothing but its thread.
LEMMA ReturnIInv ==
    ASSUME IInv, NEW t \in Thread, Return(t)
    PROVE  IInv'
<1>1. TypeOK'
  BY DEF IInv, TypeOK, Return, Goto, dataVars
<1>2. MutexInv'
  BY DEF IInv, TypeOK, MutexInv, Return, Goto
<1>3. ApplyInv' /\ EpochInv' /\ HistExact'
  BY QuietStep DEF IInv, TypeOK, Return, Goto, dataVars
<1>4. NoPanic'
  BY DEF IInv, NoPanic, Return
<1> QED
  BY <1>1, <1>2, <1>3, <1>4 DEF IInv

\* A stuttering step keeps it.
LEMMA StutterIInv ==
    ASSUME IInv, UNCHANGED vars
    PROVE  IInv'
BY DEF IInv, vars, dataVars, TypeOK, NoPanic, MutexInv, ApplyInv, EpochInv,
       HistExact, EntriesThrough

\* IInv holds of every reachable state, which the theorems below rest on.
THEOREM Invariance == Spec => []IInv
<1>1. Init => IInv
  BY InitIInv
<1>2. IInv /\ [Next]_vars => IInv'
  BY CallIInv, LockIInv, CheckIInv, ApplyIInv, SignDigIInv, GetIInv, ReturnIInv,
     StutterIInv DEF Next, Run
<1> QED
  BY <1>1, <1>2, PTL DEF Spec

-----------------------------------------------------------------------------
(* The theorems. *)

\* Every variable keeps its type: whatever is sent to Update, the audited map
\* holds labels of the right length and exact encodings of values only.
THEOREM TypeCorrect == Spec => []TypeOK
BY Invariance, PTL DEF IInv

\* No std.Assert of applyUpd fails, whatever is sent to Update.
THEOREM NeverPanics == Spec => []NoPanic
BY Invariance, PTL DEF IInv

\* Every digest the auditor signed is, for ever after, the digest of exactly
\* the entries stamped with its epoch or an earlier one, under its own epoch.
THEOREM HistoryIsExact == Spec => []HistExact
BY Invariance, PTL DEF IInv

\* With no update running the last digest is that of the whole map: updates are
\* applied entirely or not at all.
THEOREM LastIsCurrent == Spec => []LastCurrent
<1>1. IInv => LastCurrent
  <2> SUFFICES ASSUME IInv, mu = NoOne
               PROVE  IF histInfo = <<>> THEN keyMap = EmptyMap
                      ELSE histInfo[Len(histInfo)].dig = Digest(keyMap)
    BY DEF LastCurrent
  <2>1. \A t \in Thread : pc[t] # "apply"
    BY NoOneAssumption DEF IInv, MutexInv
  <2>2. Len(histInfo) \in Nat /\ histInfo \in Seq(AdtrEpochInfo)
    BY DEF IInv, TypeOK
  <2>3. \A label \in DOMAIN keyMap :
            keyMap[label].epoch \in Nat /\ keyMap[label].epoch < Len(histInfo)
    BY <2>1, <2>2 DEF IInv, TypeOK, EpochInv, MapVal
  <2>4. CASE histInfo = <<>>
    <3>1. Len(histInfo) = 0
      BY <2>4
    <3>2. DOMAIN keyMap = {}
      <4> SUFFICES ASSUME NEW label \in DOMAIN keyMap PROVE FALSE
        OBVIOUS
      <4> DEFINE e == keyMap[label].epoch
      <4>1. e \in Nat /\ e < 0
        BY <2>3, <3>1
      <4> QED
        BY <4>1
    <3>3. keyMap = [label \in DOMAIN keyMap |-> keyMap[label]]
      BY DEF IInv, TypeOK
    <3>4. keyMap = EmptyMap
      BY <3>2, <3>3, Zenon DEF EmptyMap
    <3> QED
      BY <2>4, <3>4
  <2>5. CASE histInfo # <<>>
    <3> DEFINE last == Len(histInfo) - 1
    <3>1. last \in 0..(Len(histInfo) - 1)
      BY <2>2, <2>5
    <3>2. histInfo[last + 1].dig = EntriesThrough(last)
      BY <3>1 DEF IInv, HistExact
    <3>3. EntriesThrough(last) = Digest(keyMap)
      BY <2>2, <2>3 DEF EntriesThrough, Digest
    <3> QED
      BY <2>2, <2>5, <3>2, <3>3
  <2> QED
    BY <2>4, <2>5
<1> QED
  BY <1>1, Invariance, PTL

-----------------------------------------------------------------------------
(* Auditor implements AuditLog. *)

LastDig == IF histInfo = <<>> THEN {} ELSE histInfo[Len(histInfo)].dig

\* The entries of an update, but for some labels.
EntriesBut(updates, labels) == {<<l, updates[l]>> : l \in DOMAIN updates \ labels}

\* The map is the last digest and, while an update is applied, what is applied
\* of it; all of that update extends the last digest.
MapInv ==
    /\ (\A t \in Thread : pc[t] # "apply") => Digest(keyMap) = LastDig
    /\ \A t \in Thread : pc[t] = "apply" =>
        /\ req[t] \in UpdateReq
        /\ todo[t] \subseteq DOMAIN req[t].updates
        /\ Digest(keyMap) = LastDig \cup EntriesBut(req[t].updates, todo[t])
        /\ \A l \in DOMAIN req[t].updates :
            /\ Parses(l, req[t].updates[l])
            /\ req[t].updates[l].epoch = Len(histInfo)
            /\ \A entry \in LastDig : entry[1] # l

\* The labels of a map are those of its digest.
LEMMA DigestLabels ==
    ASSUME NEW km, NEW l
    PROVE  l \notin DOMAIN km <=> \A entry \in Digest(km) : entry[1] # l
<1>1. l \in DOMAIN km => <<l, km[l]>> \in Digest(km) /\ <<l, km[l]>>[1] = l
  BY DEF Digest
<1>2. \A entry \in Digest(km) : entry[1] \in DOMAIN km
  BY DEF Digest
<1> QED
  BY <1>1, <1>2

\* The mutex is the only applying thread's, and its request is an update.
LEMMA HolderFacts ==
    ASSUME IInv, NEW t \in Thread, pc[t] \in {"locked", "apply"}
    PROVE  /\ mu = t /\ \A s \in Thread : pc[s] = "apply" => s = t
           /\ req[t].op = "update" => req[t] \in UpdateReq
           /\ req[t].op = "get" => req[t] \in GetReq
           /\ histInfo \in Seq(AdtrEpochInfo) /\ Len(histInfo) \in Nat
<1>1. mu = t /\ \A s \in Thread : pc[s] = "apply" => s = t
  BY DEF IInv, MutexInv
<1>2. req[t] \in UpdateReq \cup GetReq \cup {NoReq} /\ histInfo \in Seq(AdtrEpochInfo)
  BY DEF IInv, TypeOK
<1>3. req[t].op = "update" => req[t] \in UpdateReq
  BY <1>2 DEF GetReq, NoReq
<1>4. req[t].op = "get" => req[t] \in GetReq
  BY <1>2 DEF UpdateReq, NoReq
<1> QED
  BY <1>1, <1>2, <1>3, <1>4

\* Steps that neither start nor change an update.
LEMMA QuietMap ==
    ASSUME MapInv, UNCHANGED <<keyMap, histInfo>>,
           \A t \in Thread : pc'[t] = "apply" <=> pc[t] = "apply",
           \A t \in Thread : pc[t] = "apply" => req'[t] = req[t] /\ todo'[t] = todo[t]
    PROVE  MapInv'
BY DEF MapInv, LastDig, EntriesBut

\* checkUpd keeps MapInv: what it accepts is new to the tree.
LEMMA CheckMap ==
    ASSUME IInv, MapInv, NEW t \in Thread, Check(t)
    PROVE  MapInv'
<1> DEFINE upd == req[t].updates
<1>1. /\ pc[t] = "locked" /\ req[t].op = "update" /\ UNCHANGED <<keyMap, histInfo, req>>
      /\ IF CheckUpd(keyMap, Len(histInfo), upd)
         THEN todo' = [todo EXCEPT ![t] = DOMAIN upd] /\ pc' = [pc EXCEPT ![t] = "apply"]
         ELSE pc' = [pc EXCEPT ![t] = "ret"]
  BY DEF Check, Goto, dataVars
<1>2. /\ \A s \in Thread : pc[s] # "apply"
      /\ req[t] \in UpdateReq
  BY <1>1, HolderFacts
<1>3. Digest(keyMap) = LastDig /\ LastDig' = LastDig
  BY <1>1, <1>2 DEF MapInv, LastDig
<1>4. CASE CheckUpd(keyMap, Len(histInfo), upd)
  <2>1. /\ todo'[t] = DOMAIN upd /\ pc'[t] = "apply"
        /\ \A s \in Thread : pc'[s] = "apply" => s = t
    BY <1>1, <1>2, <1>4 DEF IInv, TypeOK
  <2>2. EntriesBut(upd, DOMAIN upd) = {}
    BY DEF EntriesBut
  <2>3. \A l \in DOMAIN upd :
            /\ Parses(l, upd[l])
            /\ upd[l].epoch = Len(histInfo)
            /\ \A entry \in LastDig : entry[1] # l
    BY <1>3, <1>4, DigestLabels DEF CheckUpd, CheckOneUpd, Parses
  <2> HIDE DEF upd
  <2>4. req'[t].updates = upd /\ req'[t] \in UpdateReq
    BY <1>1, <1>2 DEF upd
  <2>5. Digest(keyMap') = LastDig' \cup EntriesBut(upd, todo'[t])
    BY <1>1, <1>3, <2>1, <2>2
  <2> QED
    BY <1>1, <1>3, <2>1, <2>3, <2>4, <2>5 DEF MapInv
<1>5. CASE ~CheckUpd(keyMap, Len(histInfo), upd)
  <2>1. \A s \in Thread : pc'[s] # "apply"
    BY <1>1, <1>2, <1>5 DEF IInv, TypeOK
  <2> QED
    BY <1>1, <1>3, <2>1 DEF MapInv
<1> QED
  BY <1>4, <1>5

\* An iteration of applyUpd keeps MapInv.
LEMMA ApplyMap ==
    ASSUME IInv, MapInv, NEW t \in Thread, Apply(t)
    PROVE  MapInv'
<1> DEFINE upd == req[t].updates
<1>1. pc[t] = "apply" /\ UNCHANGED <<histInfo, pc, req>>
  BY DEF Apply
<1>2. PICK label \in todo[t] :
        /\ todo' = [todo EXCEPT ![t] = @ \ {label}]
        /\ label \in Label => keyMap' = MapPut(keyMap, label, upd[label])
  BY DEF Apply
<1>3. label \in Label /\ label \notin DOMAIN keyMap
  BY <1>1 DEF IInv, ApplyInv
<1>4. /\ \A s \in Thread : pc[s] = "apply" => s = t
      /\ LastDig' = LastDig
  BY <1>1, HolderFacts DEF LastDig
<1>5. /\ req[t] \in UpdateReq
      /\ todo[t] \subseteq DOMAIN upd
      /\ Digest(keyMap) = LastDig \cup EntriesBut(upd, todo[t])
  BY <1>1 DEF MapInv
<1>6. todo'[t] = todo[t] \ {label}
  BY <1>2 DEF IInv, TypeOK
<1>7. EntriesBut(upd, todo[t] \ {label}) = EntriesBut(upd, todo[t]) \cup {<<label, upd[label]>>}
  BY <1>5 DEF EntriesBut
<1>8. Digest(keyMap') = LastDig \cup EntriesBut(upd, todo'[t])
  <2> HIDE DEF upd
  <2>1. keyMap' = MapPut(keyMap, label, upd[label])
    BY <1>2, <1>3
  <2>2. Digest(keyMap') = Digest(keyMap) \cup {<<label, upd[label]>>}
    BY <1>3, <2>1, DigestPut
  <2> QED
    BY <1>5, <1>6, <1>7, <2>2
<1> HIDE DEF upd
<1>9. req'[t].updates = upd /\ req'[t] = req[t] /\ req[t].updates = upd
  BY <1>1 DEF upd
<1>10. Digest(keyMap') = LastDig' \cup EntriesBut(req'[t].updates, todo'[t])
  BY <1>4, <1>8, <1>9
<1> QED
  BY <1>1, <1>4, <1>5, <1>6, <1>9, <1>10 DEF MapInv

\* Signing adds the digest of the tree as it is.
LEMMA SignDigMap ==
    ASSUME IInv, MapInv, NEW t \in Thread, SignDig(t)
    PROVE  /\ MapInv'
           /\ \E info : /\ histInfo' = Append(histInfo, info)
                        /\ info.dig = Digest(keyMap) /\ info.servSig = req[t].sig
<1> DEFINE dig == Digest(keyMap)
           info == [dig |-> dig, servSig |-> req[t].sig,
                    adtrSig |-> Sign(AdtrKey, nextEp[t], dig)]
<1>1. /\ pc[t] = "apply" /\ pc' = [pc EXCEPT ![t] = "ret"]
      /\ histInfo' = Append(histInfo, info) /\ UNCHANGED keyMap
  BY DEF SignDig, Goto
<1>2. /\ \A s \in Thread : pc'[s] # "apply"
      /\ histInfo \in Seq(AdtrEpochInfo) /\ Len(histInfo) \in Nat
  BY <1>1, HolderFacts DEF IInv, TypeOK
<1>3. info.dig = dig /\ info.servSig = req[t].sig
  OBVIOUS
<1> HIDE DEF info
<1>4. /\ Len(histInfo') = Len(histInfo) + 1 /\ histInfo'[Len(histInfo) + 1] = info
      /\ histInfo' # <<>>
  BY <1>1, <1>2
<1>5. LastDig' = dig
  BY <1>3, <1>4 DEF LastDig
<1>6. MapInv'
  BY <1>1, <1>2, <1>5 DEF MapInv
<1> QED
  BY <1>1, <1>3, <1>6

\* The tree and the history match in every reachable state.
THEOREM MapInvariance == Spec => []MapInv
<1>1. Init => MapInv
  <2> SUFFICES ASSUME Init PROVE MapInv
    OBVIOUS
  <2>1. /\ Digest(keyMap) = {} /\ LastDig = {} /\ \A t \in Thread : pc[t] = "idle"
    BY DEF Init, Digest, EmptyMap, LastDig
  <2> QED
    BY <2>1 DEF MapInv
<1>2. IInv /\ MapInv /\ [Next]_vars => MapInv'
  <2> SUFFICES ASSUME IInv, MapInv, [Next]_vars PROVE MapInv'
    OBVIOUS
  <2>1. ASSUME NEW t \in Thread, Call(t) \/ Lock(t) \/ Get(t) \/ Return(t) PROVE MapInv'
    <3>1. /\ UNCHANGED <<keyMap, histInfo, todo>>
          /\ \E place \in {"idle", "lock", "locked", "ret"} : pc' = [pc EXCEPT ![t] = place]
          /\ pc[t] # "apply"
          /\ \A s \in Thread : s # t => req'[s] = req[s]
      BY <2>1 DEF Call, Lock, Get, Return, Goto, dataVars, IInv, TypeOK
    <3>2. \A s \in Thread :
            /\ pc'[s] = "apply" <=> pc[s] = "apply"
            /\ pc[s] = "apply" => req'[s] = req[s] /\ todo'[s] = todo[s]
      BY <3>1 DEF IInv, TypeOK
    <3> QED
      BY <3>1, <3>2, QuietMap
  <2>2. CASE UNCHANGED vars
    BY <2>2, QuietMap DEF vars, dataVars
  <2> QED
    BY <2>1, <2>2, CheckMap, ApplyMap, SignDigMap DEF Next, Run
<1> QED
  BY <1>1, <1>2, Invariance, PTL DEF Spec

\* The abstract log, from the history of signed digests.
LEMMA LogFacts ==
    ASSUME histInfo \in Seq(AdtrEpochInfo)
    PROVE  /\ Len(Digs) = Len(histInfo)
           /\ Log!Latest = LastDig
           /\ \A updates : Log!Extends(updates) <=>
                \A l \in DOMAIN updates :
                    /\ Parses(l, updates[l])
                    /\ updates[l].epoch = Len(histInfo)
                    /\ \A entry \in LastDig : entry[1] # l
<1>1. Len(histInfo) \in Nat /\ DOMAIN histInfo = 1..Len(histInfo)
  OBVIOUS
<1>2. DOMAIN Digs = 1..Len(histInfo) /\ Len(Digs) = Len(histInfo)
  <2>1. Digs = [i \in 1..Len(histInfo) |-> histInfo[i].dig]
    BY <1>1 DEF Digs
  <2> QED
    BY <1>1, <2>1
<1>3. Digs = <<>> <=> histInfo = <<>>
  <2>1. histInfo = <<>> => Digs = <<>>
    BY DEF Digs
  <2>2. Digs = <<>> => Len(histInfo) = 0
    BY <1>2
  <2> QED
    BY <2>1, <2>2
<1>4. histInfo # <<>> => Digs[Len(Digs)] = histInfo[Len(histInfo)].dig
  <2>1. histInfo # <<>> => Len(histInfo) \in DOMAIN histInfo
    BY <1>1
  <2> QED
    BY <1>2, <2>1 DEF Digs
<1>5. Log!Latest = LastDig
  BY <1>3, <1>4 DEF Log!Latest, LastDig
<1> QED
  BY <1>2, <1>5 DEF Log!Extends

\* A signed digest is one more entry of the abstract log.
LEMMA LogAppend ==
    ASSUME histInfo \in Seq(AdtrEpochInfo), NEW info, histInfo' = Append(histInfo, info)
    PROVE  Digs' = Append(Digs, info.dig) /\ ServSigs' = Append(ServSigs, info.servSig)
<1> DEFINE n == Len(histInfo)
<1>1. n \in Nat /\ DOMAIN histInfo = 1..n
  OBVIOUS
<1>2. /\ DOMAIN histInfo' = 1..(n + 1) /\ histInfo'[n + 1] = info
      /\ \A i \in 1..n : histInfo'[i] = histInfo[i]
  OBVIOUS
<1> HIDE DEF n
<1>3. ASSUME NEW old, NEW x, old = [i \in 1..n |-> old[i]]
      PROVE  Append(old, x) = [i \in 1..(n + 1) |-> IF i = n + 1 THEN x ELSE old[i]]
  <2>1. DOMAIN old = 1..n /\ Len(old) = n
    BY <1>1, <1>3
  <2> DEFINE S == {old[i] : i \in 1..n} \cup {x}
  <2>2. \A i \in 1..n : old[i] \in S
    OBVIOUS
  <2>3. x \in S
    OBVIOUS
  <2> HIDE DEF S
  <2>4. old \in [1..n -> S]
    BY <1>3, <2>2
  <2>5. old \in Seq(S)
    BY <1>1, <2>4
  <2> DEFINE new == Append(old, x)
  <2>6. new \in Seq(S) /\ Len(new) = n + 1
    BY <1>1, <2>1, <2>3, <2>5
  <2>7. \A i \in 1..(n + 1) : new[i] = IF i = n + 1 THEN x ELSE old[i]
    BY <1>1, <2>1, <2>3, <2>5
  <2> HIDE DEF new
  <2>8. new = [i \in 1..(n + 1) |-> new[i]]
    BY <2>6
  <2>9. new = [i \in 1..(n + 1) |-> IF i = n + 1 THEN x ELSE old[i]]
    BY <2>7, <2>8
  <2> QED
    BY <2>9 DEF new
<1>4. Digs = [i \in 1..n |-> histInfo[i].dig] /\ ServSigs = [i \in 1..n |-> histInfo[i].servSig]
  BY <1>1 DEF Digs, ServSigs
<1>5. Digs = [i \in 1..n |-> Digs[i]] /\ ServSigs = [i \in 1..n |-> ServSigs[i]]
  BY <1>4
<1>6. /\ Digs' = [i \in 1..(n + 1) |-> histInfo'[i].dig]
      /\ ServSigs' = [i \in 1..(n + 1) |-> histInfo'[i].servSig]
  BY <1>2 DEF Digs, ServSigs
<1>7. Digs' = Append(Digs, info.dig)
  <2>1. Append(Digs, info.dig) = [i \in 1..(n + 1) |-> IF i = n + 1 THEN info.dig ELSE Digs[i]]
    BY <1>3, <1>5
  <2>2. \A i \in 1..(n + 1) : histInfo'[i].dig = IF i = n + 1 THEN info.dig ELSE Digs[i]
    BY <1>1, <1>2, <1>4
  <2> QED
    BY <1>6, <2>1, <2>2
<1>8. ServSigs' = Append(ServSigs, info.servSig)
  <2>1. Append(ServSigs, info.servSig) =
            [i \in 1..(n + 1) |-> IF i = n + 1 THEN info.servSig ELSE ServSigs[i]]
    BY <1>3, <1>5
  <2>2. \A i \in 1..(n + 1) : histInfo'[i].servSig = IF i = n + 1 THEN info.servSig ELSE ServSigs[i]
    BY <1>1, <1>2, <1>4
  <2> QED
    BY <1>6, <2>1, <2>2
<1> QED
  BY <1>7, <1>8

\* A step of one thread changes its call only.
LEMMA CallsOf ==
    ASSUME TypeOK, NEW t \in Thread, NEW new, CallOf(t)' = new,
           \A s \in Thread : s # t => pc'[s] = pc[s] /\ req'[s] = req[s] /\ resp'[s] = resp[s]
    PROVE  [s \in Thread |-> CallOf(s)]' = [[s \in Thread |-> CallOf(s)] EXCEPT ![t] = new]
<1>1. \A s \in Thread : s # t => CallOf(s)' = CallOf(s)
  BY DEF CallOf, ResultOf
<1> QED
  BY <1>1

\* A step that keeps the history and the signatures keeps the abstract log.
LEMMA QuietLog ==
    ASSUME UNCHANGED histInfo, \A s \in Thread : CallOf(s)' = CallOf(s)
    PROVE  UNCHANGED Log!vars
<1>1. [s \in Thread |-> CallOf(s)]' = [s \in Thread |-> CallOf(s)]
  OBVIOUS
<1> QED
  BY <1>1 DEF Log!vars, Digs, ServSigs

\* Every thread has a reply.
RespInv == DOMAIN resp = Thread

\* No thread loses its reply field.
LEMMA RespInvariance == Spec => []RespInv
<1>1. Init => RespInv
  BY DEF Init, RespInv
<1>2. RespInv /\ [Next]_vars => RespInv'
  BY DEF RespInv, vars, Next, Run, Call, Lock, Check, Apply, SignDig, Get, Return
<1> QED
  BY <1>1, <1>2, PTL DEF Spec

\* What every state satisfies, for the simulation.
SimInv == IInv /\ MapInv /\ RespInv

\* A call is a call of the log.
LEMMA CallSim ==
    ASSUME SimInv, NEW t \in Thread, Call(t)
    PROVE  Log!Call(t)
<1> DEFINE op == [s \in Thread |-> CallOf(s)]
<1>1. PICK r \in UpdateReq \cup GetReq : req' = [req EXCEPT ![t] = r]
  BY DEF Call
<1>2. /\ pc[t] = "idle" /\ pc' = [pc EXCEPT ![t] = "lock"]
      /\ UNCHANGED <<histInfo, resp>>
  BY DEF Call, Goto, dataVars
<1>3. TypeOK /\ pc'[t] = "lock" /\ req'[t] = r
  BY <1>1, <1>2 DEF SimInv, IInv, TypeOK
<1>4. op[t] = Log!Idle
  BY <1>2 DEF CallOf, Log!Idle
<1>5. CallOf(t)' = Log!Pending(r)
  BY <1>3 DEF CallOf, Log!Pending
<1>6. op' = [op EXCEPT ![t] = Log!Pending(r)]
  BY <1>1, <1>2, <1>3, <1>5, CallsOf DEF TypeOK
<1>7. UNCHANGED <<Digs, ServSigs>>
  BY <1>2 DEF Digs, ServSigs
<1> QED
  BY <1>4, <1>6, <1>7 DEF Log!Call

\* Inside the critical section a call has not taken effect yet.
LEMMA QuietSim ==
    ASSUME SimInv, NEW t \in Thread,
           \/ Lock(t) \/ Apply(t)
           \/ Check(t) /\ CheckUpd(keyMap, Len(histInfo), req[t].updates)
    PROVE  UNCHANGED Log!vars
<1>1. /\ pc[t] \notin {"idle", "ret"} /\ UNCHANGED <<histInfo, req, resp>>
      /\ \E place \in {"locked", "apply"} : pc' = [pc EXCEPT ![t] = place]
  <2>1. CASE Lock(t)
    BY <2>1 DEF Lock, Goto, dataVars
  <2>2. CASE Apply(t)
    BY <2>2 DEF Apply, SimInv, IInv, TypeOK
  <2>3. CASE Check(t) /\ CheckUpd(keyMap, Len(histInfo), req[t].updates)
    BY <2>3 DEF Check, Goto, dataVars
  <2> QED
    BY <2>1, <2>2, <2>3
<1>2. \A s \in Thread :
        /\ s # t => pc'[s] = pc[s]
        /\ s = t => pc[s] \notin {"idle", "ret"} /\ pc'[s] \notin {"idle", "ret"}
  BY <1>1 DEF SimInv, IInv, TypeOK
<1>3. \A s \in Thread : CallOf(s)' = CallOf(s)
  BY <1>1, <1>2 DEF CallOf, ResultOf
<1> QED
  BY <1>1, <1>3, QuietLog

\* With the lock held and nothing applied, the checks are those of the log.
LEMMA CheckIsExtends ==
    ASSUME SimInv, NEW t \in Thread, pc[t] = "locked", NEW updates
    PROVE  CheckUpd(keyMap, Len(histInfo), updates) <=> Log!Extends(updates)
<1>1. /\ \A s \in Thread : pc[s] # "apply"
      /\ histInfo \in Seq(AdtrEpochInfo)
  BY HolderFacts DEF SimInv
<1>2. Digest(keyMap) = LastDig
  BY <1>1 DEF SimInv, MapInv
<1>3. \A l : l \notin DOMAIN keyMap <=> \A entry \in LastDig : entry[1] # l
  BY <1>2, DigestLabels
<1> QED
  BY <1>1, <1>3, LogFacts DEF CheckUpd, CheckOneUpd, Parses

\* An update that checkUpd refuses is a refused update of the log.
LEMMA RefuseSim ==
    ASSUME SimInv, NEW t \in Thread, Check(t),
           ~CheckUpd(keyMap, Len(histInfo), req[t].updates)
    PROVE  Log!Update(t)
<1> DEFINE op == [s \in Thread |-> CallOf(s)]
           r == req[t]
<1>1. /\ pc[t] = "locked" /\ r.op = "update"
      /\ resp' = [resp EXCEPT ![t] = ErrResp] /\ pc' = [pc EXCEPT ![t] = "ret"]
      /\ UNCHANGED <<histInfo, req>>
  BY DEF Check, Goto, dataVars
<1>2. TypeOK /\ pc'[t] = "ret" /\ resp'[t] = ErrResp
  BY <1>1 DEF SimInv, IInv, TypeOK, RespInv
<1>3. op[t] = [state |-> "pending", req |-> r]
  BY <1>1 DEF CallOf
<1>4. CallOf(t)' = Log!Done(r, Log!Refused)
  <2>1. ResultOf(t)' = Log!Refused
    BY <1>2 DEF ResultOf, ErrResp, Log!Refused
  <2>2. CallOf(t)' = [state |-> "done", req |-> req'[t], result |-> ResultOf(t)']
    BY <1>2 DEF CallOf
  <2>3. req'[t] = r
    BY <1>1
  <2> QED
    BY <2>1, <2>2, <2>3 DEF Log!Done
<1>5. op' = [op EXCEPT ![t] = Log!Done(r, Log!Refused)]
  BY <1>1, <1>2, <1>4, CallsOf DEF TypeOK, SimInv, RespInv
<1>6. ~Log!Extends(r.updates)
  BY <1>1, CheckIsExtends
<1>7. UNCHANGED <<Digs, ServSigs>>
  BY <1>1 DEF Digs, ServSigs
<1>8. op[t].state = "pending" /\ op[t].req = r
  BY <1>3
<1> HIDE DEF op
<1> QED
  BY <1>1, <1>5, <1>6, <1>7, <1>8 DEF Log!Update, op

\* SignDig is the update of the log taking effect.
LEMMA SignSim ==
    ASSUME SimInv, NEW t \in Thread, SignDig(t)
    PROVE  Log!Update(t)
<1> DEFINE op == [s \in Thread |-> CallOf(s)]
           r == req[t]
           added == {<<l, r.updates[l]>> : l \in DOMAIN r.updates}
           ok == [err |-> FALSE]
<1>1. /\ pc[t] = "apply" /\ todo[t] = {}
      /\ resp' = [resp EXCEPT ![t] = ok] /\ pc' = [pc EXCEPT ![t] = "ret"]
      /\ UNCHANGED <<keyMap, req>>
  BY DEF SignDig, Goto
<1>2. TypeOK /\ pc'[t] = "ret" /\ resp'[t] = ok
  BY <1>1 DEF SimInv, IInv, TypeOK, RespInv
<1>3. r.op = "update" /\ histInfo \in Seq(AdtrEpochInfo)
  BY <1>1 DEF SimInv, IInv, ApplyInv, TypeOK
<1>4. op[t] = [state |-> "pending", req |-> r]
  BY <1>1 DEF CallOf
<1>5. CallOf(t)' = Log!Done(r, ok)
  BY <1>1, <1>2, <1>3 DEF CallOf, ResultOf, Log!Done
<1>6. op' = [op EXCEPT ![t] = Log!Done(r, ok)]
  BY <1>1, <1>2, <1>5, CallsOf DEF TypeOK, SimInv, RespInv
<1>7. Log!Extends(r.updates)
  BY <1>1, <1>3, LogFacts DEF SimInv, MapInv
<1>8. Digest(keyMap) = Log!Latest \cup added
  <2>1. Digest(keyMap) = LastDig \cup EntriesBut(r.updates, todo[t])
    BY <1>1 DEF SimInv, MapInv
  <2>2. EntriesBut(r.updates, todo[t]) = added
    BY <1>1 DEF EntriesBut
  <2> QED
    BY <1>3, <2>1, <2>2, LogFacts
<1>9. /\ Digs' = Append(Digs, Digest(keyMap))
      /\ ServSigs' = Append(ServSigs, r.sig)
  <2>1. PICK info : /\ histInfo' = Append(histInfo, info)
                    /\ info.dig = Digest(keyMap) /\ info.servSig = r.sig
    BY SignDigMap DEF SimInv
  <2> QED
    BY <1>3, <2>1, LogAppend
<1>10. op[t].state = "pending" /\ op[t].req = r
  BY <1>4
<1>11. /\ Digs' = Append(Digs, Log!Latest \cup added)
       /\ ServSigs' = Append(ServSigs, r.sig)
  BY <1>8, <1>9
<1> HIDE DEF ok
<1> QED
  BY <1>3, <1>6, <1>7, <1>10, <1>11 DEF Log!Update, ok

\* Get is a read of the log.
LEMMA GetSim ==
    ASSUME SimInv, NEW t \in Thread, Get(t)
    PROVE  Log!Get(t)
<1> DEFINE op == [s \in Thread |-> CallOf(s)]
           r == req[t]
           found == [err |-> FALSE, info |-> histInfo[r.epoch + 1]]
           result == IF r.epoch < Len(Digs)
                     THEN [err |-> FALSE, epoch |-> r.epoch, dig |-> Digs[r.epoch + 1],
                           servSig |-> ServSigs[r.epoch + 1]]
                     ELSE Log!Refused
<1>1. /\ pc[t] = "locked" /\ r.op = "get" /\ pc' = [pc EXCEPT ![t] = "ret"]
      /\ resp' = [resp EXCEPT ![t] = IF r.epoch >= Len(histInfo) THEN ErrResp ELSE found]
      /\ UNCHANGED <<histInfo, req>>
  BY DEF Get, Goto, dataVars
<1>2. /\ TypeOK /\ pc'[t] = "ret"
      /\ resp'[t] = IF r.epoch >= Len(histInfo) THEN ErrResp ELSE found
  BY <1>1 DEF SimInv, IInv, TypeOK, RespInv
<1>3. r.epoch \in Nat /\ Len(histInfo) \in Nat /\ Len(Digs) = Len(histInfo)
      /\ DOMAIN histInfo = 1..Len(histInfo)
  <2>1. r \in GetReq /\ histInfo \in Seq(AdtrEpochInfo)
    BY <1>1, HolderFacts DEF SimInv
  <2>2. r.epoch \in Nat
    BY <2>1, MaxEpochsAssumption DEF GetReq
  <2> QED
    BY <2>1, <2>2, LogFacts
<1>4. op[t] = [state |-> "pending", req |-> r]
  BY <1>1 DEF CallOf
<1>5. ResultOf(t)' = result
  <2>1. CASE r.epoch >= Len(histInfo)
    <3>1. resp'[t] = ErrResp /\ ~(r.epoch < Len(Digs))
      BY <1>2, <1>3, <2>1
    <3> QED
      BY <3>1 DEF ResultOf, ErrResp, Log!Refused
  <2>2. CASE r.epoch < Len(histInfo)
    <3> DEFINE info == histInfo[r.epoch + 1]
    <3>1. resp'[t] = found
      BY <1>2, <1>3, <2>2
    <3>2. r.epoch \in 0..(Len(histInfo) - 1) /\ r.epoch + 1 \in DOMAIN histInfo
      BY <1>3, <2>2
    <3>3. info.adtrSig.epoch = r.epoch
      <4>1. info.adtrSig = Sign(AdtrKey, r.epoch, info.dig)
        BY <3>2 DEF SimInv, IInv, HistExact
      <4> HIDE DEF info
      <4> QED
        BY <4>1 DEF Sign
    <3>4. Digs[r.epoch + 1] = info.dig /\ ServSigs[r.epoch + 1] = info.servSig
      BY <3>2 DEF Digs, ServSigs
    <3>5. resp'[t].info = info /\ ~resp'[t].err
      BY <3>1
    <3> HIDE DEF info
    <3>6. ResultOf(t)' = [err |-> FALSE, epoch |-> info.adtrSig.epoch, dig |-> info.dig,
                          servSig |-> info.servSig]
      BY <1>1, <3>5 DEF ResultOf
    <3> QED
      BY <1>3, <2>2, <3>3, <3>4, <3>6
  <2> QED
    BY <1>3, <2>1, <2>2
<1> HIDE DEF result
<1>6. CallOf(t)' = Log!Done(r, result)
  BY <1>1, <1>2, <1>5 DEF CallOf, Log!Done
<1>7. op' = [op EXCEPT ![t] = Log!Done(r, result)]
  BY <1>1, <1>2, <1>6, CallsOf DEF TypeOK, SimInv, RespInv
<1>8. UNCHANGED <<Digs, ServSigs>>
  BY <1>1 DEF Digs, ServSigs
<1>9. op[t].state = "pending" /\ op[t].req = r
  BY <1>4
<1> HIDE DEF op
<1> QED
  BY <1>1, <1>7, <1>8, <1>9 DEF Log!Get, op, result

\* A return is a return of the log.
LEMMA ReturnSim ==
    ASSUME SimInv, NEW t \in Thread, Return(t)
    PROVE  Log!Return(t)
<1> DEFINE op == [s \in Thread |-> CallOf(s)]
<1>1. /\ pc[t] = "ret" /\ pc' = [pc EXCEPT ![t] = "idle"]
      /\ req' = [req EXCEPT ![t] = NoReq] /\ resp' = [resp EXCEPT ![t] = ErrResp]
      /\ UNCHANGED histInfo
  BY DEF Return, Goto, dataVars
<1>2. TypeOK /\ pc'[t] = "idle"
  BY <1>1 DEF SimInv, IInv, TypeOK
<1>3. op[t].state = "done"
  BY <1>1 DEF CallOf
<1>4. CallOf(t)' = Log!Idle
  BY <1>2 DEF CallOf, Log!Idle
<1>5. op' = [op EXCEPT ![t] = Log!Idle]
  BY <1>1, <1>2, <1>4, CallsOf DEF TypeOK, SimInv, RespInv
<1>6. UNCHANGED <<Digs, ServSigs>>
  BY <1>1 DEF Digs, ServSigs
<1> QED
  BY <1>3, <1>5, <1>6 DEF Log!Return

\* Concurrent, repeated and malformed updates and gets behave as if each were
\* executed at one instant on the abstract log: when it unlocks.
THEOREM AuditorIsLinearizable == Spec => Linearizable
<1>1. Init => Log!Init
  <2> SUFFICES ASSUME Init PROVE Log!Init
    OBVIOUS
  <2>1. Digs = <<>> /\ ServSigs = <<>>
    BY DEF Init, Digs, ServSigs
  <2>2. \A t \in Thread : CallOf(t) = Log!Idle
    BY DEF Init, CallOf, Log!Idle
  <2> QED
    BY <2>1, <2>2 DEF Log!Init
<1>2. SimInv /\ [Next]_vars => [Log!Next]_(Log!vars)
  <2> SUFFICES ASSUME SimInv, [Next]_vars PROVE [Log!Next]_(Log!vars)
    OBVIOUS
  <2>1. ASSUME NEW t \in Thread, Call(t) \/ SignDig(t) \/ Get(t) \/ Return(t)
        PROVE  Log!Next
    BY <2>1, CallSim, SignSim, GetSim, ReturnSim DEF Log!Next
  <2>2. ASSUME NEW t \in Thread, Lock(t) \/ Apply(t) PROVE UNCHANGED Log!vars
    BY <2>2, QuietSim
  <2>3. ASSUME NEW t \in Thread, Check(t) PROVE Log!Next \/ UNCHANGED Log!vars
    BY <2>3, QuietSim, RefuseSim DEF Log!Next
  <2>4. CASE UNCHANGED vars
    BY <2>4, QuietLog DEF vars, dataVars, CallOf, ResultOf
  <2> QED
    BY <2>1, <2>2, <2>3, <2>4 DEF Next, Run
<1> QED
  BY <1>1, <1>2, Invariance, MapInvariance, RespInvariance, PTL
     DEF Spec, SimInv, Linearizable, Log!Spec
=============================================================================
