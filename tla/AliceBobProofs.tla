---------------------------- MODULE AliceBobProofs ----------------------------
(***************************************************************************)
(* Bob gets Alice's key from any server, proved for any replies, updates   *)
(* and number of Puts.                                                     *)
(*                                                                         *)
(* The argument: the auditor's log binds a label to one value, from the    *)
(* epoch in that value on and not before (LogInv).  When both have audited *)
(* without an error, the digests that they rely on are those of the log.   *)
(* Alice's k-th version is in it from the epoch of her k-th Put on, and no *)
(* version after her last is in it up to the epoch of her SelfMon; Bob's   *)
(* digest has all versions up to the one he got, and not the next.         *)
(***************************************************************************)
EXTENDS AliceBob, TLAPS

Has(dig, label) == \E entry \in dig : entry[1] = label

AliceLabel(ver) == CompMapLabel(AliceUid, ver)

\* The digest binds Alice's version ver to what a Put said of it.
Binds(dig, ver, put) ==
    \E entry \in dig :
        /\ entry[1] = AliceLabel(ver)
        /\ entry[2].epoch = put.epoch
        /\ entry[2].commit.val = put.pk

\* A client's state; every digest in it is one that the server signed.
ClientOK(c) ==
    /\ c = [uid |-> c.uid, nextVer |-> c.nextVer, seenDigs |-> c.seenDigs,
            nextEpoch |-> c.nextEpoch]
    /\ c.nextEpoch \in Nat
    /\ \A epoch \in DOMAIN c.seenDigs :
        c.seenDigs[epoch].epoch = epoch /\ CheckSigDig(c.seenDigs[epoch], ServKey)

\* h is what puts say of each epoch.
HistOK(h, ps) ==
    /\ h \in Seq([isReg : BOOLEAN, pk : Pk \cup {NoPk}])
    /\ ps \in Seq([epoch : Nat, pk : Pk])
    /\ \A k \in DOMAIN ps : ps[k].epoch < Len(h)
    /\ \A j, k \in DOMAIN ps : j < k => ps[j].epoch < ps[k].epoch
    /\ \A epoch \in 0..(Len(h) - 1) :
        /\ (\A k \in DOMAIN ps : ps[k].epoch > epoch) => h[epoch + 1] = NoEntry
        /\ \A k \in DOMAIN ps :
            ps[k].epoch <= epoch /\ (\A j \in DOMAIN ps : j > k => ps[j].epoch > epoch) =>
                h[epoch + 1] = Entry(ps[k].pk)

PhaseInv ==
    /\ phase \in {"run", "audit", "done"}
    /\ phase = "run" => toAudit = {"alice", "bob"}
    /\ phase = "done" => toAudit = {}
    /\ phase # "run" => Len(puts) = NumPuts /\ got.done /\ selfMonEp \in Nat
    /\ phase = "run" => Len(hist) = alice.nextEpoch
    /\ phase # "run" => Len(hist) = selfMonEp + 1

ClientInv ==
    /\ ClientOK(alice) /\ ClientOK(bob)
    /\ alice.uid = AliceUid
    /\ alice.nextVer = Len(puts)
    /\ HistOK(hist, puts)

\* What Alice was shown of her versions, and Bob of hers.
AliceInv ==
    /\ \A k \in DOMAIN puts :
        /\ puts[k].epoch \in DOMAIN alice.seenDigs
        /\ Binds(alice.seenDigs[puts[k].epoch].dig, k - 1, puts[k])
    /\ phase # "run" =>
        /\ selfMonEp \in DOMAIN alice.seenDigs
        /\ ~Has(alice.seenDigs[selfMonEp].dig, AliceLabel(NumPuts))

\* Bob's digest has n versions before the latest.
Shows(dig, n) ==
    /\ \A ver \in 0..n : Has(dig, AliceLabel(ver))
    /\ \E entry \in dig : entry[1] = AliceLabel(n) /\ entry[2].commit.val = got.pk
    /\ ~Has(dig, AliceLabel(n + 1))

BobInv ==
    got.done =>
        /\ got.epoch \in DOMAIN bob.seenDigs /\ got.epoch \in Nat
        /\ got.isReg \in BOOLEAN
        /\ got.isReg => \E n \in Nat : Shows(bob.seenDigs[got.epoch].dig, n)
        /\ ~got.isReg => ~Has(bob.seenDigs[got.epoch].dig, AliceLabel(0))

\* A label has one value, from the epoch in that value on.
LogInv ==
    /\ log = [i \in 1..Len(log) |-> log[i]] /\ Len(log) \in Nat
    /\ \A i \in DOMAIN log : \A entry \in log[i] :
        /\ entry[2].epoch \in 0..(i - 1)
        /\ \A j \in (entry[2].epoch + 1)..Len(log) : entry \in log[j]
        /\ \A j \in 1..entry[2].epoch : ~Has(log[j], entry[1])
        /\ \A other \in log[i] : other[1] = entry[1] => other = entry

\* Digests that were audited are those of the log.
Audited(seenDigs) ==
    \A epoch \in DOMAIN seenDigs :
        epoch \in 0..(Len(log) - 1) /\ seenDigs[epoch].dig = log[epoch + 1]

AuditInv ==
    ~stopped =>
        /\ "alice" \notin toAudit => Audited(alice.seenDigs)
        /\ "bob" \notin toAudit => Audited(bob.seenDigs)

IInv ==
    /\ PhaseInv
    /\ ClientInv
    /\ AliceInv
    /\ BobInv
    /\ LogInv
    /\ AuditInv
    /\ NoPanic
    /\ EvidenceStands

\* What a step may never do to the digests and epochs relied on.
Keeps ==
    /\ alice'.nextEpoch >= alice.nextEpoch
    /\ bob'.nextEpoch >= bob.nextEpoch
    /\ \A epoch \in DOMAIN alice.seenDigs :
        alice'.seenDigs[epoch].dig = alice.seenDigs[epoch].dig

-----------------------------------------------------------------------------
(* What the client library checks. *)

\* A counter that fits does not wrap.
LEMMA ModSmall == ASSUME NEW a \in Nat, NEW b \in Nat, a < b PROVE a % b = a
OBVIOUS

\* A digest that passes is signed and agrees with what the client has seen, and
\* evidence against it stands.
LEMMA CheckDigFacts ==
    ASSUME NEW c, ClientOK(c), NEW dig
    PROVE  /\ ~CheckDig(c, dig).err =>
                /\ CheckSigDig(dig, ServKey)
                /\ dig.epoch + 1 <= MaxUint
                /\ dig.epoch \in DOMAIN c.seenDigs => c.seenDigs[dig.epoch].dig = dig.dig
           /\ CheckDig(c, dig).evid # <<>> => EvidCheck(CheckDig(c, dig).evid)
<1>1. CASE ~CheckSigDig(dig, ServKey) \/ ~SumNoOverflow(dig.epoch, 1)
  BY <1>1 DEF CheckDig, StdErr
<1>2. CASE /\ CheckSigDig(dig, ServKey) /\ SumNoOverflow(dig.epoch, 1)
           /\ dig.epoch \in DOMAIN c.seenDigs /\ c.seenDigs[dig.epoch].dig # dig.dig
  <2> DEFINE seen == c.seenDigs[dig.epoch]
  <2>1. CheckDig(c, dig) = EvidErr(dig, seen)
    BY <1>2 DEF CheckDig
  <2>2. seen.epoch = dig.epoch /\ CheckSigDig(seen, ServKey) /\ seen.dig # dig.dig
    BY <1>2 DEF ClientOK
  <2> HIDE DEF seen
  <2> QED
    BY <1>2, <2>1, <2>2 DEF EvidErr, EvidCheck
<1>3. CASE /\ CheckSigDig(dig, ServKey) /\ SumNoOverflow(dig.epoch, 1)
           /\ ~(dig.epoch \in DOMAIN c.seenDigs /\ c.seenDigs[dig.epoch].dig # dig.dig)
  BY <1>3 DEF CheckDig, NoErr, SumNoOverflow
<1> QED
  BY <1>1, <1>2, <1>3

\* A call that succeeds passed its checks, and evidence it returns stands.
LEMMA VerdictFacts ==
    ASSUME NEW c, ClientOK(c), NEW reply, NEW checked
    PROVE  /\ ~Verdict(c, reply, checked).err =>
                ~reply.err /\ checked /\ ~CheckDig(c, reply.dig).err
           /\ Verdict(c, reply, checked).evid # <<>> => EvidCheck(Verdict(c, reply, checked).evid)
<1>1. CASE reply.err
  BY <1>1 DEF Verdict, StdErr
<1>2. CASE ~reply.err /\ CheckDig(c, reply.dig).err
  BY <1>2, CheckDigFacts DEF Verdict
<1>3. CASE ~reply.err /\ ~CheckDig(c, reply.dig).err /\ checked
  BY <1>3 DEF Verdict, NoErr
<1>4. CASE ~reply.err /\ ~CheckDig(c, reply.dig).err /\ ~checked
  BY <1>4 DEF Verdict, StdErr
<1> QED
  BY <1>1, <1>2, <1>3, <1>4

\* Seeing a digest changes two fields.
LEMMA SeeRecord ==
    ASSUME NEW u, NEW v, NEW m, NEW n, NEW dig
    PROVE  See([uid |-> u, nextVer |-> v, seenDigs |-> m, nextEpoch |-> n], dig) =
                [uid |-> u, nextVer |-> v, seenDigs |-> MapPut(m, dig.epoch, dig),
                 nextEpoch |-> (dig.epoch + 1) % (MaxUint + 1)]
<1> DEFINE c == [uid |-> u, nextVer |-> v, seenDigs |-> m, nextEpoch |-> n]
           seen == MapPut(m, dig.epoch, dig)
           next == (dig.epoch + 1) % (MaxUint + 1)
<1>1. See(c, dig) = [[c EXCEPT !.seenDigs = seen] EXCEPT !.nextEpoch = next]
  <2>1. c.seenDigs = m
    OBVIOUS
  <2> HIDE DEF c
  <2> QED
    BY <2>1 DEF See
<1> HIDE DEF seen, next
<1>2. [c EXCEPT !.seenDigs = seen] = [uid |-> u, nextVer |-> v, seenDigs |-> seen, nextEpoch |-> n]
  OBVIOUS
<1>3. [[uid |-> u, nextVer |-> v, seenDigs |-> seen, nextEpoch |-> n] EXCEPT !.nextEpoch = next] =
        [uid |-> u, nextVer |-> v, seenDigs |-> seen, nextEpoch |-> next]
  OBVIOUS
<1> HIDE DEF c
<1>4. See(c, dig) = [uid |-> u, nextVer |-> v, seenDigs |-> seen, nextEpoch |-> next]
  BY <1>1, <1>2, <1>3
<1> QED
  BY <1>4 DEF c, seen, next

\* Seeing a digest that passed keeps what was seen before.
LEMMA SeeFacts ==
    ASSUME NEW c, ClientOK(c), NEW dig, dig.epoch \in 0..MaxUint, ~CheckDig(c, dig).err
    PROVE  /\ ClientOK(See(c, dig))
           /\ See(c, dig).uid = c.uid /\ See(c, dig).nextVer = c.nextVer
           /\ See(c, dig).nextEpoch = dig.epoch + 1
           /\ DOMAIN See(c, dig).seenDigs = DOMAIN c.seenDigs \cup {dig.epoch}
           /\ See(c, dig).seenDigs[dig.epoch].dig = dig.dig
           /\ \A epoch \in DOMAIN c.seenDigs :
                See(c, dig).seenDigs[epoch].dig = c.seenDigs[epoch].dig
<1> DEFINE next == (dig.epoch + 1) % (MaxUint + 1)
           seen == MapPut(c.seenDigs, dig.epoch, dig)
<1>1. See(c, dig) = [uid |-> c.uid, nextVer |-> c.nextVer, seenDigs |-> seen, nextEpoch |-> next]
  <2>1. c = [uid |-> c.uid, nextVer |-> c.nextVer, seenDigs |-> c.seenDigs,
             nextEpoch |-> c.nextEpoch]
    BY DEF ClientOK
  <2>2. See([uid |-> c.uid, nextVer |-> c.nextVer, seenDigs |-> c.seenDigs,
             nextEpoch |-> c.nextEpoch], dig) =
            [uid |-> c.uid, nextVer |-> c.nextVer, seenDigs |-> seen, nextEpoch |-> next]
    BY SeeRecord
  <2> HIDE DEF seen, next
  <2> QED
    BY <2>1, <2>2, Zenon
<1>2. /\ CheckSigDig(dig, ServKey) /\ dig.epoch + 1 <= MaxUint
      /\ dig.epoch \in DOMAIN c.seenDigs => c.seenDigs[dig.epoch].dig = dig.dig
  BY CheckDigFacts
<1>3. next = dig.epoch + 1 /\ next \in Nat
  BY <1>2, MaxUintAssumption, ModSmall
<1>4. /\ DOMAIN seen = DOMAIN c.seenDigs \cup {dig.epoch}
      /\ seen[dig.epoch] = dig
      /\ \A epoch \in DOMAIN c.seenDigs : epoch # dig.epoch => seen[epoch] = c.seenDigs[epoch]
  BY DEF MapPut
<1> HIDE DEF next, seen
<1>5. \A epoch \in DOMAIN seen : seen[epoch].epoch = epoch /\ CheckSigDig(seen[epoch], ServKey)
  BY <1>2, <1>4 DEF ClientOK
<1> QED
  BY <1>1, <1>2, <1>3, <1>4, <1>5 DEF ClientOK

\* The epochs of Puts are within the history.
LEMMA PutEpochs ==
    ASSUME NEW h, NEW ps, HistOK(h, ps)
    PROVE  /\ Len(h) \in Nat /\ Len(ps) \in Nat /\ DOMAIN ps = 1..Len(ps)
           /\ \A k \in DOMAIN ps :
                ps[k].epoch \in Nat /\ ps[k].pk \in Pk /\ ps[k].epoch < Len(h)
<1> DEFINE Put == [epoch : Nat, pk : Pk]
           Key == [isReg : BOOLEAN, pk : Pk \cup {NoPk}]
<1>1. /\ h \in Seq(Key) /\ ps \in Seq(Put)
      /\ \A k \in DOMAIN ps : ps[k].epoch < Len(h)
  BY DEF HistOK
<1>2. \A put \in Put : put.epoch \in Nat /\ put.pk \in Pk
  OBVIOUS
<1> HIDE DEF Put, Key
<1>3. \A k \in DOMAIN ps : ps[k] \in Put
  BY <1>1
<1> QED
  BY <1>1, <1>2, <1>3

\* Extending a history says the same of its epochs, and of no Put something new.
LEMMA ExtendFacts ==
    ASSUME NEW h, NEW ps, HistOK(h, ps), NEW n \in Nat, n >= Len(h)
    PROVE  /\ HistOK(ExtendHist(h, n), ps)
           /\ Len(ExtendHist(h, n)) = n
<1> DEFINE last == IF h = <<>> THEN NoEntry ELSE h[Len(h)]
           more == [i \in 1..(n - Len(h)) |-> last]
           ext == ExtendHist(h, n)
           Key == [isReg : BOOLEAN, pk : Pk \cup {NoPk}]
<1>1. h \in Seq(Key) /\ ps \in Seq([epoch : Nat, pk : Pk])
  BY DEF HistOK
<1>2. last \in Key
  <2>1. NoEntry \in Key
    BY DEF NoEntry
  <2> HIDE DEF Key
  <2>2. h # <<>> => h[Len(h)] \in Key
    BY <1>1
  <2> QED
    BY <2>1, <2>2
<1>3. ext = h \o more
  BY DEF ExtendHist
<1>4. Len(h) \in Nat /\ n - Len(h) \in Nat
  BY <1>1
<1> HIDE DEF last
<1>5. more \in Seq(Key) /\ Len(more) = n - Len(h)
  BY <1>2, <1>4
<1> HIDE DEF more, Key, ext
<1>6. /\ ext \in Seq(Key) /\ Len(ext) = n
      /\ \A i \in 1..Len(h) : ext[i] = h[i]
      /\ \A i \in (Len(h) + 1)..n : ext[i] = more[i - Len(h)]
  BY <1>1, <1>3, <1>4, <1>5
<1>7. \A i \in (Len(h) + 1)..n : ext[i] = last
  BY <1>4, <1>6 DEF more
<1>8. ASSUME NEW epoch \in 0..(n - 1)
      PROVE  /\ (\A k \in DOMAIN ps : ps[k].epoch > epoch) => ext[epoch + 1] = NoEntry
             /\ \A k \in DOMAIN ps :
                  ps[k].epoch <= epoch /\ (\A j \in DOMAIN ps : j > k => ps[j].epoch > epoch) =>
                      ext[epoch + 1] = Entry(ps[k].pk)
  <2>1. CASE epoch < Len(h)
    <3>1. epoch \in 0..(Len(h) - 1) /\ ext[epoch + 1] = h[epoch + 1]
      BY <1>4, <1>6, <2>1
    <3> QED
      BY <3>1 DEF HistOK
  <2>2. CASE epoch >= Len(h)
    <3>1. ext[epoch + 1] = last
      BY <1>4, <1>7, <2>2
    <3>2. \A k \in DOMAIN ps : ps[k].epoch \in Nat /\ ps[k].epoch < Len(h)
      BY PutEpochs
    <3>3. \A k \in DOMAIN ps : ps[k].epoch <= epoch /\ ps[k].epoch <= Len(h) - 1
      BY <1>4, <2>2, <3>2
    <3>4. CASE h = <<>>
      <4>1. \A k \in DOMAIN ps : FALSE
        <5>1. Len(h) = 0
          BY <3>4
        <5> QED
          BY <3>2, <5>1
      <4> QED
        BY <3>1, <3>4, <4>1 DEF last
    <3>5. CASE h # <<>>
      <4>1. Len(h) > 0 /\ last = h[Len(h)] /\ Len(h) - 1 \in 0..(Len(h) - 1)
        BY <1>1, <1>4, <3>5 DEF last
      <4>2. /\ (\A k \in DOMAIN ps : ps[k].epoch > Len(h) - 1) => last = NoEntry
            /\ \A k \in DOMAIN ps :
                  ps[k].epoch <= Len(h) - 1 /\ (\A j \in DOMAIN ps : j > k => ps[j].epoch > Len(h) - 1) =>
                      last = Entry(ps[k].pk)
        <5> DEFINE e == Len(h) - 1
        <5>1. e \in 0..(Len(h) - 1) /\ h[e + 1] = last
          BY <1>4, <4>1
        <5> QED
          BY <5>1 DEF HistOK
      <4>3. \A j \in DOMAIN ps : ~(ps[j].epoch > Len(h) - 1) /\ ~(ps[j].epoch > epoch)
        BY <1>4, <3>2, <3>3
      <4> QED
        BY <3>1, <3>3, <4>2, <4>3
    <3> QED
      BY <3>4, <3>5
  <2> QED
    BY <1>4, <2>1, <2>2
<1>9. \A k \in DOMAIN ps : ps[k].epoch < Len(ext)
  BY <1>4, <1>6, PutEpochs
<1> QED
  BY <1>1, <1>6, <1>8, <1>9 DEF HistOK, Key, ext

\* A Put adds one entry, for its own epoch.
LEMMA PutHistFacts ==
    ASSUME NEW h, NEW ps, HistOK(h, ps), NEW pk \in Pk
    PROVE  HistOK(Append(h, Entry(pk)), Append(ps, [epoch |-> Len(h), pk |-> pk]))
<1> DEFINE new == Append(h, Entry(pk))
           put == [epoch |-> Len(h), pk |-> pk]
           news == Append(ps, put)
           Key == [isReg : BOOLEAN, pk : Pk \cup {NoPk}]
<1>1. h \in Seq(Key) /\ ps \in Seq([epoch : Nat, pk : Pk])
  BY DEF HistOK
<1>2. Entry(pk) \in Key /\ put \in [epoch : Nat, pk : Pk]
  BY <1>1 DEF Entry
<1>3. put.epoch = Len(h) /\ put.pk = pk /\ Len(h) \in Nat /\ Len(ps) \in Nat
  BY <1>1
<1> HIDE DEF Key, put
<1>4. /\ new \in Seq(Key) /\ Len(new) = Len(h) + 1
      /\ \A i \in 1..Len(h) : new[i] = h[i]
      /\ new[Len(h) + 1] = Entry(pk)
  BY <1>1, <1>2
<1>5. /\ news \in Seq([epoch : Nat, pk : Pk]) /\ Len(news) = Len(ps) + 1
      /\ \A k \in DOMAIN ps : news[k] = ps[k]
      /\ news[Len(ps) + 1] = put
      /\ DOMAIN ps = 1..Len(ps) /\ DOMAIN news = 1..(Len(ps) + 1)
  BY <1>1, <1>2
<1> HIDE DEF new, news
<1>6. \A k \in DOMAIN ps : ps[k].epoch \in Nat /\ ps[k].epoch < Len(h)
  BY PutEpochs
<1>7. \A k \in DOMAIN news : news[k].epoch < Len(new)
  BY <1>3, <1>4, <1>5, <1>6
<1>8. \A j, k \in DOMAIN news : j < k => news[j].epoch < news[k].epoch
  <2> TAKE j, k \in DOMAIN news
  <2> HAVE j < k
  <2>1. j \in DOMAIN ps /\ news[j] = ps[j]
    BY <1>3, <1>5
  <2>2. CASE k \in DOMAIN ps
    BY <1>5, <2>1, <2>2 DEF HistOK
  <2>3. CASE k = Len(ps) + 1
    BY <1>3, <1>5, <1>6, <2>1, <2>3
  <2> QED
    BY <1>3, <1>5, <2>2, <2>3
<1>9. ASSUME NEW epoch \in 0..(Len(new) - 1)
      PROVE  /\ (\A k \in DOMAIN news : news[k].epoch > epoch) => new[epoch + 1] = NoEntry
             /\ \A k \in DOMAIN news :
                  news[k].epoch <= epoch /\ (\A j \in DOMAIN news : j > k => news[j].epoch > epoch) =>
                      new[epoch + 1] = Entry(news[k].pk)
  <2>1. CASE epoch = Len(h)
    <3>1. \A k \in DOMAIN news : k = Len(ps) + 1 \/ (Len(ps) + 1 \in DOMAIN news /\ Len(ps) + 1 > k)
      BY <1>3, <1>5
    <3>2. ~(news[Len(ps) + 1].epoch > epoch) /\ Len(ps) + 1 \in DOMAIN news
      BY <1>3, <1>5, <2>1
    <3>3. new[epoch + 1] = Entry(news[Len(ps) + 1].pk)
      BY <1>3, <1>4, <1>5, <2>1
    <3> QED
      BY <3>1, <3>2, <3>3
  <2>2. CASE epoch < Len(h)
    <3>1. epoch \in 0..(Len(h) - 1) /\ new[epoch + 1] = h[epoch + 1]
      BY <1>3, <1>4, <2>2
    <3>2. /\ (\A k \in DOMAIN ps : ps[k].epoch > epoch) => h[epoch + 1] = NoEntry
          /\ \A k \in DOMAIN ps :
              ps[k].epoch <= epoch /\ (\A j \in DOMAIN ps : j > k => ps[j].epoch > epoch) =>
                  h[epoch + 1] = Entry(ps[k].pk)
      BY <3>1 DEF HistOK
    <3>3. \A k \in DOMAIN ps : k \in DOMAIN news /\ news[k] = ps[k]
      BY <1>3, <1>5
    <3>4. \A k \in DOMAIN news : k \in DOMAIN ps \/ news[k].epoch = Len(h)
      BY <1>3, <1>5
    <3>5. \A k \in DOMAIN news : news[k].epoch <= epoch => k \in DOMAIN ps
      BY <1>3, <2>2, <3>4
    <3> QED
      BY <3>1, <3>2, <3>3, <3>5
  <2> QED
    BY <1>3, <1>4, <2>1, <2>2
<1> QED
  BY <1>4, <1>5, <1>7, <1>8, <1>9 DEF HistOK, Key, new, news, put

-----------------------------------------------------------------------------
(* What a call that succeeds has been shown. *)

\* A Put: its entry, in a digest of an epoch not older than any seen.
LEMMA PutFacts ==
    ASSUME NEW c, ClientOK(c), NEW pk, NEW reply \in PutReply, ~PutErr(c, pk, reply).err
    PROVE  /\ reply.dig.epoch \in 0..MaxUint /\ ~CheckDig(c, reply.dig).err
           /\ reply.dig.epoch >= c.nextEpoch
           /\ <<CompMapLabel(c.uid, c.nextVer), CompMapVal(reply.dig.epoch, reply.latest.pkOpen)>>
                \in reply.dig.dig
           /\ reply.latest.pkOpen.val = pk
<1> DEFINE checked ==
            /\ reply.dig.epoch >= c.nextEpoch
            /\ CheckMemb(c.uid, c.nextVer, reply.dig.dig, reply.latest)
            /\ reply.dig.epoch = reply.latest.epochAdded
            /\ pk = reply.latest.pkOpen.val
            /\ CheckNonMemb(c.uid, c.nextVer + 1, reply.dig.dig, reply.bound)
<1>1. ~Verdict(c, reply, checked).err
  BY DEF PutErr
<1> HIDE DEF checked
<1>2. ~reply.err /\ checked /\ ~CheckDig(c, reply.dig).err
  BY <1>1, VerdictFacts
<1>3. reply.dig.epoch \in 0..MaxUint
  BY <1>2, ReplyAssumption
<1> QED
  BY <1>2, <1>3 DEF checked, CheckMemb, MerkleVerify

\* A Get: all versions before the latest, the latest, and not the next.
LEMMA GetFacts ==
    ASSUME NEW c, ClientOK(c), NEW uid, NEW reply \in GetReply, ~GetErr(c, uid, reply).err
    PROVE  /\ reply.dig.epoch \in 0..MaxUint /\ ~CheckDig(c, reply.dig).err
           /\ reply.dig.epoch + 1 >= c.nextEpoch
           /\ reply.isReg \in BOOLEAN
           /\ reply.isReg => \E n \in Nat :
                /\ \A ver \in 0..n : Has(reply.dig.dig, CompMapLabel(uid, ver))
                /\ \E entry \in reply.dig.dig :
                    /\ entry[1] = CompMapLabel(uid, n)
                    /\ entry[2].commit.val = reply.latest.pkOpen.val
                /\ ~Has(reply.dig.dig, CompMapLabel(uid, n + 1))
           /\ ~reply.isReg => ~Has(reply.dig.dig, CompMapLabel(uid, 0))
<1> DEFINE n == Len(reply.hist)
           boundVer == IF reply.isReg THEN n + 1 ELSE 0
           dig == reply.dig.dig
           checked ==
            /\ reply.dig.epoch + 1 >= c.nextEpoch
            /\ CheckHist(uid, reply.dig.dig, reply.hist)
            /\ n > 0 => reply.isReg
            /\ reply.isReg => CheckMemb(uid, n, reply.dig.dig, reply.latest)
            /\ CheckNonMemb(uid, boundVer, reply.dig.dig, reply.bound)
<1>1. ~Verdict(c, reply, checked).err
  BY DEF GetErr
<1> HIDE DEF checked
<1>2. ~reply.err /\ checked /\ ~CheckDig(c, reply.dig).err
  BY <1>1, VerdictFacts
<1>3. /\ reply.dig.epoch \in 0..MaxUint
      /\ reply.isReg \in BOOLEAN
      /\ n \in Nat /\ DOMAIN reply.hist = 1..n
  BY <1>2, ReplyAssumption
<1>4. ~Has(dig, CompMapLabel(uid, boundVer))
  <2> HIDE DEF boundVer
  <2> QED
    BY <1>2 DEF checked, CheckNonMemb, MerkleVerify, Has
<1>5. ASSUME reply.isReg
      PROVE  <<CompMapLabel(uid, n), CompMapVal(reply.latest.epochAdded, reply.latest.pkOpen)>> \in dig
  BY <1>2, <1>5 DEF checked, CheckMemb, MerkleVerify
<1>6. ASSUME NEW ver \in 0..(n - 1) PROVE Has(dig, CompMapLabel(uid, ver))
  <2>1. ver + 1 \in DOMAIN reply.hist /\ ver + 1 - 1 = ver
    BY <1>3
  <2>2. CheckMembHide(uid, ver, dig, reply.hist[ver + 1])
    BY <1>2, <2>1 DEF checked, CheckHist
  <2>3. <<CompMapLabel(uid, ver), reply.hist[ver + 1].mapVal>> \in dig
    BY <2>2 DEF CheckMembHide, MerkleVerify
  <2> QED
    BY <2>3 DEF Has
<1> HIDE DEF n, dig
<1>7. ASSUME reply.isReg
      PROVE  /\ \A ver \in 0..n : Has(dig, CompMapLabel(uid, ver))
             /\ \E entry \in dig :
                    /\ entry[1] = CompMapLabel(uid, n)
                    /\ entry[2].commit.val = reply.latest.pkOpen.val
             /\ ~Has(dig, CompMapLabel(uid, n + 1))
  <2>1. Has(dig, CompMapLabel(uid, n))
    BY <1>5, <1>7 DEF Has
  <2>2. \A ver \in 0..n : ver = n \/ ver \in 0..(n - 1)
    BY <1>3
  <2>3. CompMapVal(reply.latest.epochAdded, reply.latest.pkOpen).commit.val = reply.latest.pkOpen.val
    BY DEF CompMapVal
  <2> QED
    BY <1>4, <1>5, <1>6, <1>7, <2>1, <2>2, <2>3
<1>8. reply.dig.epoch + 1 >= c.nextEpoch
  BY <1>2 DEF checked
<1>9. ~reply.isReg => ~Has(dig, CompMapLabel(uid, 0))
  BY <1>4
<1> QED
  BY <1>2, <1>3, <1>7, <1>8, <1>9 DEF dig

\* A SelfMon: no version after the client's last.
LEMMA SelfMonFacts ==
    ASSUME NEW c, ClientOK(c), NEW reply \in SelfMonReply, ~SelfMonErr(c, reply).err
    PROVE  /\ reply.dig.epoch \in 0..MaxUint /\ ~CheckDig(c, reply.dig).err
           /\ reply.dig.epoch + 1 >= c.nextEpoch
           /\ ~Has(reply.dig.dig, CompMapLabel(c.uid, c.nextVer))
<1> DEFINE checked ==
            /\ reply.dig.epoch + 1 >= c.nextEpoch
            /\ CheckNonMemb(c.uid, c.nextVer, reply.dig.dig, reply.bound)
<1>1. ~Verdict(c, reply, checked).err
  BY DEF SelfMonErr
<1> HIDE DEF checked
<1>2. ~reply.err /\ checked /\ ~CheckDig(c, reply.dig).err
  BY <1>1, VerdictFacts
<1>3. reply.dig.epoch \in 0..MaxUint
  BY <1>2, ReplyAssumption
<1> QED
  BY <1>2, <1>3 DEF checked, CheckNonMemb, MerkleVerify, Has

\* An audit of one digest: it is the log's, or what it says convicts the server.
LEMMA AuditFacts ==
    ASSUME NEW c, ClientOK(c), NEW epoch \in DOMAIN c.seenDigs, NEW info \in AdtrReply, LogInv
    PROVE  LET err == AuditEpochErr(c.seenDigs[epoch], info) IN
           /\ err.evid # <<>> => EvidCheck(err.evid)
           /\ err = NoErr => epoch \in 0..(Len(log) - 1) /\ c.seenDigs[epoch].dig = log[epoch + 1]
<1> DEFINE seen == c.seenDigs[epoch]
           servDig == [epoch |-> seen.epoch, dig |-> info.dig, sig |-> info.servSig]
           adtrDig == [epoch |-> seen.epoch, dig |-> info.dig, sig |-> info.adtrSig]
           err == AuditEpochErr(seen, info)
<1>1. seen.epoch = epoch /\ CheckSigDig(seen, ServKey)
  BY DEF ClientOK
<1>2. PICK i \in DOMAIN log : info.dig = log[i] /\ info.adtrSig = Sign(AdtrKey, i - 1, log[i])
  BY DEF AdtrReply
<1>3. i \in 1..Len(log) /\ Len(log) \in Nat
  BY DEF LogInv
<1> HIDE DEF seen
<1>4. CASE ~CheckSigDig(servDig, ServKey) \/ ~CheckSigDig(adtrDig, AdtrKey)
  <2>1. err = StdErr
    BY <1>4 DEF AuditEpochErr
  <2> QED
    BY <2>1 DEF StdErr, NoErr, seen
<1>5. CASE CheckSigDig(servDig, ServKey) /\ CheckSigDig(adtrDig, AdtrKey) /\ info.dig # seen.dig
  <2>1. err = EvidErr(servDig, seen)
    BY <1>5 DEF AuditEpochErr
  <2>2. servDig.epoch = seen.epoch /\ servDig.dig # seen.dig
    BY <1>5
  <2> HIDE DEF servDig
  <2>3. EvidErr(servDig, seen).err /\ EvidErr(servDig, seen).evid = <<servDig, seen>>
    BY DEF EvidErr
  <2>4. EvidCheck(<<servDig, seen>>)
    BY <1>1, <1>5, <2>2 DEF EvidCheck
  <2>5. ~NoErr.err
    BY DEF NoErr
  <2>6. err # NoErr /\ EvidCheck(err.evid)
    BY <2>1, <2>3, <2>4, <2>5
  <2> QED
    BY <2>6 DEF seen
<1>6. CASE CheckSigDig(servDig, ServKey) /\ CheckSigDig(adtrDig, AdtrKey) /\ info.dig = seen.dig
  <2>1. err = NoErr
    BY <1>6 DEF AuditEpochErr
  <2>2. Sign(AdtrKey, i - 1, log[i]) = Sign(AdtrKey, epoch, info.dig)
    BY <1>1, <1>2, <1>6 DEF CheckSigDig
  <2>3. epoch = i - 1
    BY <2>2 DEF Sign
  <2>4. epoch \in 0..(Len(log) - 1) /\ epoch + 1 = i
    BY <1>3, <2>3
  <2>5. err.evid = <<>>
    BY <2>1 DEF NoErr
  <2>6. seen.dig = log[epoch + 1]
    BY <1>2, <1>6, <2>4
  <2> HIDE DEF err
  <2>7. (err.evid # <<>> => EvidCheck(err.evid)) /\ (err = NoErr => epoch \in 0..(Len(log) - 1) /\ seen.dig = log[epoch + 1])
    BY <2>4, <2>5, <2>6
  <2> QED
    BY <2>7 DEF seen, err
<1> QED
  BY <1>4, <1>5, <1>6

-----------------------------------------------------------------------------
(* The initial state, and one lemma per action. *)

\* It holds when the test starts.
LEMMA InitInv == ASSUME Init PROVE IInv
<1>1. /\ ClientOK(NewClient(AliceUid)) /\ NewClient(AliceUid).uid = AliceUid
      /\ NewClient(AliceUid).nextVer = 0 /\ NewClient(AliceUid).nextEpoch = 0
      /\ ClientOK(NewClient(BobUid))
  BY DEF NewClient, ClientOK, EmptyMap
<1>2. HistOK(<<>>, <<>>)
  BY DEF HistOK
<1>3. PhaseInv /\ ClientInv
  BY <1>1, <1>2 DEF Init, PhaseInv, ClientInv
<1>4. AliceInv /\ BobInv
  BY DEF Init, AliceInv, BobInv, NotGot
<1>5. LogInv
  BY DEF Init, LogInv
<1>6. AuditInv /\ NoPanic /\ EvidenceStands
  BY DEF Init, AuditInv, NoPanic, EvidenceStands, NoErr
<1> QED
  BY <1>3, <1>4, <1>5, <1>6 DEF IInv

\* A call that fails stops the program and changes nothing else.
LEMMA ErrorStep ==
    ASSUME IInv, NEW err, err.err, CheckCliErr(err), err.evid # <<>> => EvidCheck(err.evid),
           UNCHANGED <<cliVars, log, phase, panicked>>,
           UNCHANGED toAudit \/ phase = "audit"
    PROVE  IInv' /\ Keeps
<1>1. stopped' /\ (lastErr'.evid # <<>> => EvidCheck(lastErr'.evid))
  BY DEF CheckCliErr
<1>2. PhaseInv'
  BY DEF IInv, PhaseInv, cliVars
<1>3. ClientInv' /\ AliceInv' /\ BobInv'
  BY DEF IInv, ClientInv, AliceInv, BobInv, cliVars, Shows
<1>4. LogInv'
  BY DEF IInv, LogInv
<1>5. AuditInv' /\ NoPanic' /\ EvidenceStands'
  BY <1>1 DEF IInv, AuditInv, NoPanic, EvidenceStands
<1>6. Keeps
  BY DEF IInv, ClientInv, ClientOK, Keeps, cliVars
<1> QED
  BY <1>2, <1>3, <1>4, <1>5, <1>6 DEF IInv

\* Steps that leave everything but the audit alone.
LEMMA SameClients ==
    ASSUME IInv, UNCHANGED cliVars
    PROVE  /\ ClientInv' /\ BobInv' /\ Keeps
           /\ phase' = "run" \/ phase # "run" => AliceInv'
<1>1. ClientInv' /\ BobInv'
  BY DEF IInv, ClientInv, BobInv, cliVars, Shows
<1>2. phase' = "run" \/ phase # "run" => AliceInv'
  BY DEF IInv, AliceInv, cliVars
<1>3. Keeps
  BY DEF IInv, ClientInv, ClientOK, Keeps, cliVars
<1> QED
  BY <1>1, <1>2, <1>3

\* One more version: the other fields stay.
LEMMA AfterPutFacts ==
    ASSUME NEW c, NEW reply, ClientOK(See(c, reply.dig))
    PROVE  LET seen == See(c, reply.dig)
               new == AfterPut(c, reply)
           IN  /\ ClientOK(new)
               /\ new.uid = seen.uid /\ new.nextVer = seen.nextVer + 1
               /\ new.seenDigs = seen.seenDigs /\ new.nextEpoch = seen.nextEpoch
<1> DEFINE seen == See(c, reply.dig)
<1>1. seen = [uid |-> seen.uid, nextVer |-> seen.nextVer, seenDigs |-> seen.seenDigs,
              nextEpoch |-> seen.nextEpoch]
  BY DEF ClientOK
<1>2. AfterPut(c, reply) = [seen EXCEPT !.nextVer = seen.nextVer + 1]
  BY DEF AfterPut
<1> HIDE DEF seen
<1>3. [seen EXCEPT !.nextVer = seen.nextVer + 1] =
            [uid |-> seen.uid, nextVer |-> seen.nextVer + 1, seenDigs |-> seen.seenDigs,
             nextEpoch |-> seen.nextEpoch]
  BY <1>1
<1>4. /\ AfterPut(c, reply).uid = seen.uid
      /\ AfterPut(c, reply).nextVer = seen.nextVer + 1
      /\ AfterPut(c, reply).seenDigs = seen.seenDigs
      /\ AfterPut(c, reply).nextEpoch = seen.nextEpoch
  BY <1>2, <1>3
<1>5. AfterPut(c, reply) = [uid |-> AfterPut(c, reply).uid, nextVer |-> AfterPut(c, reply).nextVer,
                            seenDigs |-> AfterPut(c, reply).seenDigs,
                            nextEpoch |-> AfterPut(c, reply).nextEpoch]
  BY <1>2, <1>3, <1>4
<1>6. ClientOK(AfterPut(c, reply))
  BY <1>4, <1>5 DEF ClientOK, seen
<1> QED
  BY <1>4, <1>6 DEF seen

\* A Put with any reply keeps it.
LEMMA AlicePutStep == ASSUME IInv, AlicePut PROVE IInv' /\ Keeps
<1>1. PICK pk \in Pk, reply \in PutReply :
        LET err == PutErr(alice, pk, reply) IN
        /\ CheckCliErr(err)
        /\ IF err.err
           THEN UNCHANGED <<alice, hist, puts, panicked>>
           ELSE /\ alice' = AfterPut(alice, reply)
                /\ panicked' = ~CanExtend(hist, reply.dig.epoch)
                /\ hist' = Append(ExtendHist(hist, reply.dig.epoch), Entry(pk))
                /\ puts' = Append(puts, [epoch |-> reply.dig.epoch, pk |-> pk])
  BY DEF AlicePut
<1>2. phase = "run" /\ UNCHANGED <<selfMonEp, bob, got, log, toAudit, phase>>
  BY DEF AlicePut
<1> DEFINE err == PutErr(alice, pk, reply)
           epoch == reply.dig.epoch
           put == [epoch |-> epoch, pk |-> pk]
<1>3. ClientOK(alice) /\ ClientOK(bob) /\ HistOK(hist, puts) /\ alice.uid = AliceUid /\ alice.nextVer = Len(puts)
  BY DEF IInv, ClientInv
<1>4. err.evid # <<>> => EvidCheck(err.evid)
  BY <1>3, VerdictFacts DEF PutErr
<1> HIDE DEF err
<1>5. CASE err.err
  <2>1. CheckCliErr(err) /\ UNCHANGED <<cliVars, log, phase, panicked>> /\ UNCHANGED toAudit
    BY <1>1, <1>2, <1>5 DEF err, cliVars
  <2> QED
    BY <1>4, <1>5, <2>1, ErrorStep
<1>6. CASE ~err.err
  <2>1. /\ alice' = AfterPut(alice, reply)
        /\ panicked' = ~CanExtend(hist, epoch)
        /\ hist' = Append(ExtendHist(hist, epoch), Entry(pk))
        /\ puts' = Append(puts, put)
        /\ CheckCliErr(err)
    BY <1>1, <1>6 DEF err
  <2>2. /\ epoch \in Nat /\ ~CheckDig(alice, reply.dig).err
        /\ epoch \in 0..MaxUint
        /\ epoch >= alice.nextEpoch
        /\ <<AliceLabel(Len(puts)), CompMapVal(epoch, reply.latest.pkOpen)>> \in reply.dig.dig
        /\ reply.latest.pkOpen.val = pk
    BY <1>3, <1>6, PutFacts, MaxUintAssumption DEF err, AliceLabel
  <2> DEFINE seen == See(alice, reply.dig)
  <2>3. /\ ClientOK(seen)
        /\ seen.uid = AliceUid /\ seen.nextVer = Len(puts)
        /\ seen.nextEpoch = epoch + 1
        /\ DOMAIN seen.seenDigs = DOMAIN alice.seenDigs \cup {epoch}
        /\ seen.seenDigs[epoch].dig = reply.dig.dig
        /\ \A e \in DOMAIN alice.seenDigs : seen.seenDigs[e].dig = alice.seenDigs[e].dig
    BY <1>3, <2>2, SeeFacts
  <2>4. /\ ClientOK(alice') /\ alice'.uid = AliceUid /\ alice'.nextVer = Len(puts) + 1
        /\ alice'.nextEpoch = epoch + 1
        /\ DOMAIN alice'.seenDigs = DOMAIN alice.seenDigs \cup {epoch}
        /\ alice'.seenDigs[epoch].dig = reply.dig.dig
        /\ \A e \in DOMAIN alice.seenDigs : alice'.seenDigs[e].dig = alice.seenDigs[e].dig
    BY <2>1, <2>3, AfterPutFacts
  <2> HIDE DEF epoch, seen, put
  <2>5. Len(hist) = alice.nextEpoch /\ Len(hist) <= epoch /\ Len(hist) \in Nat
    BY <1>2, <1>3, <2>2, PutEpochs DEF IInv, PhaseInv
  <2>6. /\ HistOK(ExtendHist(hist, epoch), puts)
        /\ Len(ExtendHist(hist, epoch)) = epoch
    BY <1>3, <2>2, <2>5, ExtendFacts
  <2>7. HistOK(hist', puts')
    BY <2>1, <2>6, PutHistFacts DEF put
  <2>8. Len(hist') = epoch + 1
    <3>1. \E Key : ExtendHist(hist, epoch) \in Seq(Key)
      BY <2>6 DEF HistOK
    <3> QED
      BY <2>1, <2>6, <3>1
  <2>9. /\ Len(puts) \in Nat /\ Len(puts') = Len(puts) + 1
        /\ DOMAIN puts = 1..Len(puts) /\ DOMAIN puts' = 1..(Len(puts) + 1)
        /\ \A k \in DOMAIN puts : puts'[k] = puts[k]
        /\ puts'[Len(puts) + 1] = put
    <3>1. puts \in Seq([epoch : Nat, pk : Pk])
      BY <1>3 DEF HistOK
    <3> QED
      BY <2>1, <3>1
  <2>10. PhaseInv'
    BY <1>2, <2>4, <2>8 DEF IInv, PhaseInv
  <2>11. ClientInv'
    BY <1>2, <1>3, <2>4, <2>7, <2>9 DEF ClientInv
  <2>12. AliceInv'
    <3>1. ASSUME NEW k \in DOMAIN puts'
          PROVE  /\ puts'[k].epoch \in DOMAIN alice'.seenDigs
                 /\ Binds(alice'.seenDigs[puts'[k].epoch].dig, k - 1, puts'[k])
      <4>1. CASE k \in DOMAIN puts
        BY <2>4, <2>9, <4>1 DEF IInv, AliceInv
      <4>2. CASE k = Len(puts) + 1
        <5>1. puts'[k] = put /\ put.epoch = epoch /\ put.pk = pk /\ k - 1 = Len(puts)
          BY <2>9, <4>2 DEF put
        <5>2. Binds(reply.dig.dig, Len(puts), put)
          BY <2>2, <5>1 DEF Binds, CompMapVal
        <5> QED
          BY <2>4, <5>1, <5>2
      <4> QED
        BY <2>9, <4>1, <4>2
    <3> QED
      BY <1>2, <3>1 DEF AliceInv
  <2>13. BobInv' /\ LogInv'
    BY <1>2 DEF IInv, BobInv, Shows, LogInv
  <2>14. AuditInv'
    BY <1>2 DEF IInv, PhaseInv, AuditInv
  <2>15. NoPanic'
    BY <2>1, <2>5 DEF NoPanic, CanExtend
  <2>16. EvidenceStands'
    BY <1>4, <2>1 DEF EvidenceStands, CheckCliErr
  <2>17. Keeps
    BY <1>2, <1>3, <2>2, <2>4 DEF Keeps, ClientOK
  <2> QED
    BY <2>10, <2>11, <2>12, <2>13, <2>14, <2>15, <2>16, <2>17 DEF IInv
<1> QED
  BY <1>5, <1>6

\* Bob's Get with any reply keeps it.
LEMMA BobGetStep == ASSUME IInv, BobGet PROVE IInv' /\ Keeps
<1>1. PICK reply \in GetReply :
        LET err == GetErr(bob, AliceUid, reply) IN
        /\ CheckCliErr(err)
        /\ IF err.err
           THEN UNCHANGED <<bob, got>>
           ELSE /\ bob' = AfterGet(bob, reply)
                /\ got' = [done |-> TRUE, epoch |-> reply.dig.epoch,
                           isReg |-> reply.isReg, pk |-> reply.latest.pkOpen.val]
  BY DEF BobGet
<1>2. phase = "run" /\ UNCHANGED <<alice, hist, puts, selfMonEp, log, toAudit, phase, panicked>>
  BY DEF BobGet
<1> DEFINE err == GetErr(bob, AliceUid, reply)
           epoch == reply.dig.epoch
<1>3. ClientOK(alice) /\ ClientOK(bob)
  BY DEF IInv, ClientInv
<1>4. err.evid # <<>> => EvidCheck(err.evid)
  BY <1>3, VerdictFacts DEF GetErr
<1> HIDE DEF err
<1>5. CASE err.err
  <2>1. CheckCliErr(err) /\ UNCHANGED <<cliVars, log, phase, panicked>> /\ UNCHANGED toAudit
    BY <1>1, <1>2, <1>5 DEF err, cliVars
  <2> QED
    BY <1>4, <1>5, <2>1, ErrorStep
<1>6. CASE ~err.err
  <2>1. /\ bob' = AfterGet(bob, reply)
        /\ got'.done /\ got'.epoch = epoch /\ got'.isReg = reply.isReg
        /\ got'.pk = reply.latest.pkOpen.val
        /\ CheckCliErr(err)
    BY <1>1, <1>6 DEF err
  <2>2. /\ epoch \in Nat /\ ~CheckDig(bob, reply.dig).err
        /\ epoch \in 0..MaxUint
        /\ epoch + 1 >= bob.nextEpoch
        /\ reply.isReg \in BOOLEAN
        /\ reply.isReg => \E n \in Nat :
                /\ \A ver \in 0..n : Has(reply.dig.dig, AliceLabel(ver))
                /\ \E entry \in reply.dig.dig :
                    /\ entry[1] = AliceLabel(n)
                    /\ entry[2].commit.val = reply.latest.pkOpen.val
                /\ ~Has(reply.dig.dig, AliceLabel(n + 1))
        /\ ~reply.isReg => ~Has(reply.dig.dig, AliceLabel(0))
    BY <1>3, <1>6, GetFacts, MaxUintAssumption DEF err, AliceLabel
  <2>3. /\ ClientOK(bob')
        /\ bob'.nextEpoch = epoch + 1
        /\ epoch \in DOMAIN bob'.seenDigs
        /\ bob'.seenDigs[epoch].dig = reply.dig.dig
    BY <1>3, <2>1, <2>2, SeeFacts DEF AfterGet
  <2> HIDE DEF epoch
  <2>4. PhaseInv'
    BY <1>2 DEF IInv, PhaseInv
  <2>5. ClientInv'
    BY <1>2, <2>3 DEF IInv, ClientInv
  <2>6. AliceInv'
    BY <1>2 DEF IInv, AliceInv
  <2>7. BobInv'
    <3>1. got'.isReg => \E n \in Nat : Shows(bob.seenDigs[epoch].dig, n)'
      BY <2>1, <2>2, <2>3 DEF Shows
    <3> QED
      BY <2>1, <2>2, <2>3, <3>1 DEF BobInv
  <2>8. LogInv'
    BY <1>2 DEF IInv, LogInv
  <2>9. AuditInv'
    BY <1>2 DEF IInv, PhaseInv, AuditInv
  <2>10. NoPanic' /\ EvidenceStands'
    BY <1>2, <1>4, <2>1 DEF IInv, NoPanic, EvidenceStands, CheckCliErr
  <2>11. Keeps
    BY <1>2, <1>3, <2>2, <2>3 DEF Keeps, ClientOK
  <2> QED
    BY <2>4, <2>5, <2>6, <2>7, <2>8, <2>9, <2>10, <2>11 DEF IInv
<1> QED
  BY <1>5, <1>6

\* A SelfMon with any reply keeps it.
LEMMA AliceSelfMonStep == ASSUME IInv, AliceSelfMon PROVE IInv' /\ Keeps
<1>1. PICK reply \in SelfMonReply :
        LET err == SelfMonErr(alice, reply) IN
        /\ CheckCliErr(err)
        /\ IF err.err
           THEN UNCHANGED <<alice, hist, selfMonEp, phase, panicked>>
           ELSE /\ alice' = AfterSelfMon(alice, reply)
                /\ selfMonEp' = reply.dig.epoch
                /\ panicked' = ~CanExtend(hist, reply.dig.epoch + 1)
                /\ hist' = ExtendHist(hist, reply.dig.epoch + 1)
                /\ phase' = "audit"
  BY DEF AliceSelfMon
<1>2. /\ phase = "run" /\ Len(puts) = NumPuts /\ got.done
      /\ UNCHANGED <<puts, bob, got, log, toAudit>>
  BY DEF AliceSelfMon
<1> DEFINE err == SelfMonErr(alice, reply)
           epoch == reply.dig.epoch
<1>3. ClientOK(alice) /\ ClientOK(bob) /\ HistOK(hist, puts) /\ alice.uid = AliceUid /\ alice.nextVer = NumPuts
  BY <1>2 DEF IInv, ClientInv
<1>4. err.evid # <<>> => EvidCheck(err.evid)
  BY <1>3, VerdictFacts DEF SelfMonErr
<1> HIDE DEF err
<1>5. CASE err.err
  <2>1. CheckCliErr(err) /\ UNCHANGED <<cliVars, log, phase, panicked>> /\ UNCHANGED toAudit
    BY <1>1, <1>2, <1>5 DEF err, cliVars
  <2> QED
    BY <1>4, <1>5, <2>1, ErrorStep
<1>6. CASE ~err.err
  <2>1. /\ alice' = AfterSelfMon(alice, reply)
        /\ selfMonEp' = epoch
        /\ panicked' = ~CanExtend(hist, epoch + 1)
        /\ hist' = ExtendHist(hist, epoch + 1)
        /\ phase' = "audit"
        /\ CheckCliErr(err)
    BY <1>1, <1>6 DEF err
  <2>2. /\ epoch \in Nat /\ ~CheckDig(alice, reply.dig).err
        /\ epoch \in 0..MaxUint
        /\ epoch + 1 >= alice.nextEpoch
        /\ ~Has(reply.dig.dig, AliceLabel(NumPuts))
    BY <1>3, <1>6, SelfMonFacts, MaxUintAssumption DEF err, AliceLabel
  <2>3. /\ ClientOK(alice') /\ alice'.uid = AliceUid /\ alice'.nextVer = Len(puts)
        /\ alice'.nextEpoch = epoch + 1
        /\ DOMAIN alice'.seenDigs = DOMAIN alice.seenDigs \cup {epoch}
        /\ alice'.seenDigs[epoch].dig = reply.dig.dig
        /\ \A e \in DOMAIN alice.seenDigs : alice'.seenDigs[e].dig = alice.seenDigs[e].dig
    BY <1>2, <1>3, <2>1, <2>2, SeeFacts DEF AfterSelfMon
  <2> HIDE DEF epoch
  <2>4. Len(hist) = alice.nextEpoch /\ Len(hist) <= epoch + 1 /\ Len(hist) \in Nat
    BY <1>2, <1>3, <2>2, PutEpochs DEF IInv, PhaseInv
  <2>5. HistOK(hist', puts) /\ Len(hist') = epoch + 1
    BY <1>3, <2>1, <2>2, <2>4, ExtendFacts
  <2>6. PhaseInv'
    BY <1>2, <2>1, <2>2, <2>5 DEF IInv, PhaseInv
  <2>7. ClientInv'
    BY <1>2, <1>3, <2>3, <2>5 DEF ClientInv
  <2>8. AliceInv'
    BY <1>2, <2>1, <2>2, <2>3 DEF IInv, AliceInv
  <2>9. BobInv' /\ LogInv'
    BY <1>2 DEF IInv, BobInv, Shows, LogInv
  <2>10. AuditInv'
    BY <1>2 DEF IInv, PhaseInv, AuditInv
  <2>11. NoPanic'
    BY <2>1, <2>4 DEF NoPanic, CanExtend
  <2>12. EvidenceStands'
    BY <1>4, <2>1 DEF EvidenceStands, CheckCliErr
  <2>13. Keeps
    BY <1>2, <1>3, <2>2, <2>3 DEF Keeps, ClientOK
  <2> QED
    BY <2>6, <2>7, <2>8, <2>9, <2>10, <2>11, <2>12, <2>13 DEF IInv
<1> QED
  BY <1>5, <1>6

\* An update adds labels that were not there, stamped with the new epoch.
LEMMA AdtrUpdateStep == ASSUME IInv, AdtrUpdate PROVE IInv' /\ Keeps
<1>1. PICK updates \in Updates :
        Auditor!Extends(updates) /\ log' = Append(log, Auditor!Latest \cup Digest(updates))
  BY DEF AdtrUpdate
<1>2. phase = "audit" /\ UNCHANGED <<cliVars, toAudit, phase, endVars>>
  BY DEF AdtrUpdate
<1> DEFINE n == Len(log)
           last == Auditor!Latest
           new == last \cup Digest(updates)
<1>3. /\ log = [i \in 1..n |-> log[i]] /\ n \in Nat
      /\ \A i \in 1..n : \A entry \in log[i] :
            /\ entry[2].epoch \in 0..(i - 1)
            /\ \A j \in (entry[2].epoch + 1)..n : entry \in log[j]
            /\ \A j \in 1..entry[2].epoch : ~Has(log[j], entry[1])
            /\ \A other \in log[i] : other[1] = entry[1] => other = entry
  BY DEF IInv, LogInv
<1>4. /\ n = 0 => last = {}
      /\ n # 0 => last = log[n]
  BY <1>3 DEF Auditor!Latest
<1>5. \A entry \in Digest(updates) :
        /\ entry[2].epoch = n
        /\ \A other \in last : other[1] # entry[1]
        /\ \A other \in Digest(updates) : other[1] = entry[1] => other = entry
  BY <1>1 DEF Auditor!Extends, Digest
<1> HIDE DEF last
<1>6. /\ Len(log') = n + 1
      /\ log' = [i \in 1..(n + 1) |-> log'[i]]
      /\ \A i \in 1..n : log'[i] = log[i]
      /\ log'[n + 1] = new
  <2>1. log \in Seq({log[i] : i \in 1..n})
    <3> DEFINE S == {log[i] : i \in 1..n}
    <3>1. \A i \in 1..n : log[i] \in S
      OBVIOUS
    <3> HIDE DEF S
    <3>2. [i \in 1..n |-> log[i]] \in [1..n -> S]
      BY <3>1
    <3>3. log \in [1..n -> S]
      BY <1>3, <3>2
    <3>4. log \in Seq(S)
      BY <1>3, <3>3
    <3> QED
      BY <3>4 DEF S
  <2> HIDE DEF new
  <2>2. PICK S : log \in Seq(S)
    BY <2>1
  <2>3. log' = Append(log, new)
    BY <1>1 DEF new, last
  <2> DEFINE T == S \cup {new}
  <2>4. log \in Seq(T) /\ new \in T
    BY <2>2
  <2> HIDE DEF T
  <2>5. log' \in Seq(T) /\ Len(log') = Len(log) + 1
    BY <2>3, <2>4
  <2>6. Len(log) = n /\ n \in Nat
    BY <1>3
  <2> HIDE DEF n
  <2>7. log' = [i \in 1..(n + 1) |-> log'[i]]
    BY <2>5, <2>6
  <2>8. \A i \in 1..n : log'[i] = log[i]
    BY <2>3, <2>4, <2>6
  <2>9. log'[n + 1] = new
    BY <2>3, <2>4, <2>6
  <2> QED
    BY <2>5, <2>6, <2>7, <2>8, <2>9
<1> HIDE DEF n, new
\* Who is in the log before is not new, and the reverse.
<1>7. \A i \in 1..n : \A entry \in log[i] : \A other \in Digest(updates) : other[1] # entry[1]
  <2> TAKE i \in 1..n
  <2> TAKE entry \in log[i]
  <2>1. entry \in log[n] /\ n # 0
    BY <1>3
  <2> QED
    BY <1>4, <1>5, <2>1
<1>8. ASSUME NEW i \in 1..(n + 1), NEW entry \in log'[i]
      PROVE  /\ entry[2].epoch \in 0..(i - 1)
             /\ \A j \in (entry[2].epoch + 1)..(n + 1) : entry \in log'[j]
             /\ \A j \in 1..entry[2].epoch : ~Has(log'[j], entry[1])
             /\ \A other \in log'[i] : other[1] = entry[1] => other = entry
  <2>1. CASE entry \in Digest(updates)
    <3>1. i = n + 1
      BY <1>3, <1>6, <1>7, <2>1
    <3>2. entry[2].epoch = n /\ entry \in new
      BY <1>5, <2>1 DEF new
    <3>3. \A j \in (entry[2].epoch + 1)..(n + 1) : j = n + 1
      BY <1>3, <3>2
    <3>4. \A j \in 1..entry[2].epoch : ~Has(log'[j], entry[1])
      BY <1>6, <1>7, <2>1, <3>2 DEF Has
    <3>5. \A other \in new : other[1] = entry[1] => other = entry
      BY <1>5, <2>1 DEF new
    <3> QED
      BY <1>3, <1>6, <3>1, <3>2, <3>3, <3>4, <3>5
  <2>2. CASE entry \notin Digest(updates)
    <3>1. PICK k \in 1..n : entry \in log[k] /\ k <= i /\ (i # n + 1 => k = i) /\ (i = n + 1 => k = n)
      <4>1. CASE i = n + 1
        BY <1>3, <1>4, <1>6, <2>2, <4>1 DEF new
      <4>2. CASE i # n + 1
        BY <1>3, <1>6, <4>2
      <4> QED
        BY <4>1, <4>2
    <3>2. /\ entry[2].epoch \in 0..(k - 1)
          /\ \A j \in (entry[2].epoch + 1)..n : entry \in log[j]
          /\ \A j \in 1..entry[2].epoch : ~Has(log[j], entry[1])
          /\ \A other \in log[k] : other[1] = entry[1] => other = entry
      BY <1>3, <3>1
    <3>3. entry[2].epoch \in 0..(i - 1) /\ entry[2].epoch < n
      BY <1>3, <3>1, <3>2
    <3>4. entry \in new
      <4>1. n # 0 /\ n \in (entry[2].epoch + 1)..n
        BY <1>3, <3>3
      <4> QED
        BY <1>4, <3>2, <4>1 DEF new
    <3>5. \A j \in (entry[2].epoch + 1)..(n + 1) : entry \in log'[j]
      <4> TAKE j \in (entry[2].epoch + 1)..(n + 1)
      <4>1. CASE j = n + 1
        BY <1>6, <3>4, <4>1
      <4>2. CASE j # n + 1
        <5>1. j \in (entry[2].epoch + 1)..n /\ j \in 1..n
          BY <1>3, <3>3, <4>2
        <5> QED
          BY <1>6, <3>2, <5>1
      <4> QED
        BY <4>1, <4>2
    <3>6. \A j \in 1..entry[2].epoch : ~Has(log'[j], entry[1])
      <4>1. \A j \in 1..entry[2].epoch : j \in 1..n
        BY <1>3, <3>3
      <4> QED
        BY <1>6, <3>2, <4>1
    <3>7. \A other \in log'[i] : other[1] = entry[1] => other = entry
      <4>1. CASE i = n + 1
        <5>1. n # 0 /\ k = n
          BY <1>3, <3>1, <4>1
        <5>2. \A other \in Digest(updates) : other[1] # entry[1]
          BY <1>7, <3>1
        <5> QED
          BY <1>4, <1>6, <3>2, <4>1, <5>1, <5>2 DEF new
      <4>2. CASE i # n + 1
        BY <1>3, <1>6, <3>1, <3>2, <4>2
      <4> QED
        BY <4>1, <4>2
    <3> QED
      BY <3>3, <3>5, <3>6, <3>7
  <2> QED
    BY <2>1, <2>2
<1>9. LogInv'
  <2>1. n + 1 \in Nat /\ DOMAIN log' = 1..(n + 1)
    BY <1>3, <1>6
  <2> QED
    BY <1>6, <1>8, <2>1 DEF LogInv
<1>10. AuditInv'
  <2>1. ASSUME NEW seenDigs, Audited(seenDigs) PROVE Audited(seenDigs)'
    <3>1. \A epoch \in DOMAIN seenDigs :
            /\ epoch \in 0..(n - 1) /\ seenDigs[epoch].dig = log[epoch + 1]
            /\ epoch \in 0..(n + 1 - 1) /\ epoch + 1 \in 1..n
      BY <1>3, <2>1 DEF Audited, n
    <3>2. \A epoch \in DOMAIN seenDigs :
            epoch \in 0..(Len(log') - 1) /\ seenDigs[epoch].dig = log'[epoch + 1]
      <4> TAKE epoch \in DOMAIN seenDigs
      <4>1. epoch \in 0..(Len(log') - 1)
        BY <1>3, <1>6, <3>1
      <4>2. log'[epoch + 1] = log[epoch + 1]
        BY <1>6, <3>1
      <4> QED
        BY <3>1, <4>1, <4>2
    <3> QED
      BY <3>2 DEF Audited
  <2>2. UNCHANGED <<alice, bob, toAudit, stopped>>
    BY <1>2 DEF cliVars, endVars
  <2> QED
    BY <2>1, <2>2 DEF IInv, AuditInv
<1>11. PhaseInv'
  BY <1>2 DEF IInv, PhaseInv, cliVars
<1>12. ClientInv' /\ AliceInv' /\ BobInv' /\ Keeps
  BY <1>2, SameClients
<1>13. NoPanic' /\ EvidenceStands'
  BY <1>2 DEF IInv, NoPanic, EvidenceStands, endVars
<1> QED
  BY <1>9, <1>10, <1>11, <1>12, <1>13 DEF IInv

\* An audit without an error: all digests are those of the log.
LEMMA AuditStep ==
    ASSUME IInv, ~stopped, NEW who \in {"alice", "bob"}, Audit(who)
    PROVE  IInv' /\ Keeps
<1> DEFINE c == IF who = "alice" THEN alice ELSE bob
           seenDigs == c.seenDigs
<1>1. seenDigs = IF who = "alice" THEN alice.seenDigs ELSE bob.seenDigs
  OBVIOUS
<1> HIDE DEF seenDigs
<1>2. /\ phase = "audit" /\ toAudit' = toAudit \ {who}
      /\ UNCHANGED <<cliVars, log, phase, panicked>>
      /\ \/ /\ \A epoch \in DOMAIN seenDigs : \E info \in AdtrReply :
                  AuditEpochErr(seenDigs[epoch], info) = NoErr
            /\ CheckCliErr(NoErr)
         \/ \E epoch \in DOMAIN seenDigs, info \in AdtrReply :
              LET err == AuditEpochErr(seenDigs[epoch], info) IN
              /\ err.err
              /\ CheckCliErr(err)
  BY <1>1 DEF Audit
<1>3. ClientOK(c) /\ LogInv
  BY DEF IInv, ClientInv
<1>4. CASE \E epoch \in DOMAIN seenDigs, info \in AdtrReply :
              LET err == AuditEpochErr(seenDigs[epoch], info) IN
              /\ err.err
              /\ CheckCliErr(err)
  <2>1. PICK epoch \in DOMAIN seenDigs, info \in AdtrReply :
              LET err == AuditEpochErr(seenDigs[epoch], info) IN
              /\ err.err
              /\ CheckCliErr(err)
    BY <1>4
  <2> DEFINE err == AuditEpochErr(seenDigs[epoch], info)
  <2> HIDE DEF c
  <2>2. err.evid # <<>> => EvidCheck(err.evid)
    BY <1>3, AuditFacts DEF seenDigs
  <2>3. err.err /\ CheckCliErr(err)
    BY <2>1
  <2> HIDE DEF err
  <2> QED
    BY <1>2, <2>2, <2>3, ErrorStep
<1>5. CASE /\ \A epoch \in DOMAIN seenDigs : \E info \in AdtrReply :
                  AuditEpochErr(seenDigs[epoch], info) = NoErr
           /\ CheckCliErr(NoErr)
  <2>1. Audited(seenDigs)
    <3> HIDE DEF c
    <3> QED
      BY <1>3, <1>5, AuditFacts DEF Audited, seenDigs
  <2>2. lastErr' = NoErr /\ stopped' = FALSE
    BY <1>5 DEF CheckCliErr, NoErr
  <2>3. AuditInv'
    <3>1. /\ "alice" \notin toAudit => Audited(alice.seenDigs)
          /\ "bob" \notin toAudit => Audited(bob.seenDigs)
      BY DEF IInv, AuditInv
    <3>2. \A other \in {"alice", "bob"} : other \notin toAudit' => other \notin toAudit \/ other = who
      BY <1>2
    <3>3. /\ "alice" \notin toAudit' => Audited(alice.seenDigs)
          /\ "bob" \notin toAudit' => Audited(bob.seenDigs)
      BY <1>1, <2>1, <3>1, <3>2
    <3>4. UNCHANGED <<alice, bob, log>>
      BY <1>2 DEF cliVars
    <3>5. /\ Audited(alice.seenDigs) => Audited(alice.seenDigs)'
          /\ Audited(bob.seenDigs) => Audited(bob.seenDigs)'
      BY <3>4 DEF Audited
    <3> QED
      BY <3>3, <3>5 DEF AuditInv
  <2>4. PhaseInv'
    BY <1>2 DEF IInv, PhaseInv, cliVars
  <2>5. ClientInv' /\ AliceInv' /\ BobInv' /\ Keeps
    BY <1>2, SameClients
  <2>6. LogInv' /\ NoPanic'
    BY <1>2 DEF IInv, LogInv, NoPanic
  <2>7. EvidenceStands'
    BY <2>2 DEF EvidenceStands, NoErr
  <2> QED
    BY <2>3, <2>4, <2>5, <2>6, <2>7 DEF IInv
<1> QED
  BY <1>2, <1>4, <1>5

\* The last check changes nothing that it depends on.
LEMMA FinishStep == ASSUME IInv, Finish PROVE IInv' /\ Keeps
<1>1. phase = "audit" /\ toAudit = {} /\ phase' = "done" /\ UNCHANGED <<cliVars, log, toAudit, endVars>>
  BY DEF Finish
<1>2. PhaseInv'
  BY <1>1 DEF IInv, PhaseInv, cliVars
<1>3. ClientInv' /\ AliceInv' /\ BobInv' /\ Keeps
  BY <1>1, SameClients
<1>4. LogInv' /\ AuditInv'
  BY <1>1 DEF IInv, LogInv, AuditInv, Audited, cliVars, endVars
<1>5. NoPanic' /\ EvidenceStands'
  BY <1>1 DEF IInv, NoPanic, EvidenceStands, endVars
<1> QED
  BY <1>2, <1>3, <1>4, <1>5 DEF IInv

\* A stuttering step keeps it.
LEMMA StutterStep == ASSUME IInv, UNCHANGED vars PROVE IInv'
<1>1. UNCHANGED cliVars /\ UNCHANGED <<log, toAudit, phase, endVars>>
  BY DEF vars, cliVars, endVars
<1>2. PhaseInv'
  BY <1>1 DEF IInv, PhaseInv, cliVars
<1>3. ClientInv' /\ AliceInv' /\ BobInv'
  BY <1>1, SameClients
<1>4. LogInv' /\ AuditInv'
  BY <1>1 DEF IInv, LogInv, AuditInv, Audited, cliVars, endVars
<1>5. NoPanic' /\ EvidenceStands'
  BY <1>1 DEF IInv, NoPanic, EvidenceStands, endVars
<1> QED
  BY <1>2, <1>3, <1>4, <1>5 DEF IInv

\* Every step keeps it, and never rolls a client back.
LEMMA NextStep == ASSUME IInv, Next PROVE IInv' /\ Keeps
<1>1. CASE AlicePut
  BY <1>1, AlicePutStep
<1>2. CASE BobGet
  BY <1>2, BobGetStep
<1>3. CASE AliceSelfMon
  BY <1>3, AliceSelfMonStep
<1>4. CASE AdtrUpdate
  BY <1>4, AdtrUpdateStep
<1>5. CASE ~stopped /\ \E who \in {"alice", "bob"} : Audit(who)
  BY <1>5, AuditStep
<1>6. CASE Finish
  BY <1>6, FinishStep
<1> QED
  BY <1>1, <1>2, <1>3, <1>4, <1>5, <1>6 DEF Next

-----------------------------------------------------------------------------
(* The theorems. *)

\* The inductive invariant holds in every state of AliceBob, whatever the server
\* and the network reply.
THEOREM Invariance == Spec => []IInv
<1>1. Init => IInv
  BY InitInv
<1>2. IInv /\ [Next]_vars => IInv'
  BY NextStep, StutterStep
<1> QED
  BY <1>1, <1>2, PTL DEF Spec

\* The std.Assert of extendHist never fails: a reply that passes a client's
\* checks is for an epoch that her history has not gone beyond.
THEOREM HistoryNeverPanics == Spec => []NoPanic
<1>1. IInv => NoPanic
  BY DEF IInv
<1> QED
  BY <1>1, Invariance, PTL

\* Whatever evidence a client returns, from a call or from an audit, convicts
\* the server.
THEOREM EvidenceAlwaysStands == Spec => []EvidenceStands
<1>1. IInv => EvidenceStands
  BY DEF IInv
<1> QED
  BY <1>1, Invariance, PTL

\* No step takes a client back to an older epoch, and none replaces a digest
\* that Alice relied on.
THEOREM ClientsNeverRollBack == Spec => NeverRollsBack
<1>1. IInv /\ [Next]_vars =>
        [/\ alice'.nextEpoch >= alice.nextEpoch
         /\ bob'.nextEpoch >= bob.nextEpoch
         /\ \A epoch \in DOMAIN alice.seenDigs :
              alice'.seenDigs[epoch].dig = alice.seenDigs[epoch].dig]_vars
  BY NextStep DEF Keeps
<1> QED
  BY <1>1, Invariance, PTL DEF Spec, NeverRollsBack

\* When both audits pass, the key that Bob got is the one that Alice's own
\* history has for the epoch of his Get.
THEOREM BobGetsAliceKey == Spec => []BobGotAliceKey
<1>1. ASSUME IInv, phase = "done", ~stopped, got.epoch <= selfMonEp
      PROVE  SameKey(hist, got.epoch, got.isReg, got.pk)
  <2> DEFINE g == got.epoch
             s == selfMonEp
             dig == log[g + 1]
  <2>1. /\ NumPuts = Len(puts) /\ got.done /\ s \in Nat /\ g \in Nat /\ g <= s
        /\ got.isReg \in BOOLEAN /\ Len(hist) = s + 1
        /\ HistOK(hist, puts)
        /\ Audited(alice.seenDigs) /\ Audited(bob.seenDigs)
    BY <1>1 DEF IInv, PhaseInv, BobInv, ClientInv, AuditInv
  <2>2. /\ g \in 0..(Len(log) - 1) /\ bob.seenDigs[g].dig = dig
        /\ s \in 0..(Len(log) - 1) /\ alice.seenDigs[s].dig = log[s + 1]
    BY <1>1, <2>1 DEF IInv, BobInv, AliceInv, Audited
  <2>3. /\ Len(log) \in Nat
        /\ \A i \in 1..Len(log) : \A entry \in log[i] :
            /\ entry[2].epoch \in 0..(i - 1)
            /\ \A j \in (entry[2].epoch + 1)..Len(log) : entry \in log[j]
            /\ \A j \in 1..entry[2].epoch : ~Has(log[j], entry[1])
            /\ \A other \in log[i] : other[1] = entry[1] => other = entry
    BY <1>1 DEF IInv, LogInv
  <2>4. /\ Len(puts) \in Nat /\ DOMAIN puts = 1..Len(puts)
        /\ \A k \in DOMAIN puts : puts[k].epoch \in Nat /\ puts[k].epoch < s + 1
        /\ \A j, k \in DOMAIN puts : j < k => puts[j].epoch < puts[k].epoch
    BY <2>1, PutEpochs DEF HistOK
  <2> HIDE DEF g, s, dig
  \* Her version k - 1 is in Bob's digest exactly if he got it after her Put.
  <2>5. ASSUME NEW k \in DOMAIN puts
        PROVE  /\ puts[k].epoch <= g => \E entry \in dig :
                    entry[1] = AliceLabel(k - 1) /\ entry[2].commit.val = puts[k].pk
               /\ puts[k].epoch > g => ~Has(dig, AliceLabel(k - 1))
    <3>1. /\ puts[k].epoch \in 0..(Len(log) - 1)
          /\ Binds(log[puts[k].epoch + 1], k - 1, puts[k])
      BY <1>1, <2>1 DEF IInv, AliceInv, Audited
    <3>2. PICK entry \in log[puts[k].epoch + 1] :
            /\ entry[1] = AliceLabel(k - 1)
            /\ entry[2].epoch = puts[k].epoch
            /\ entry[2].commit.val = puts[k].pk
      BY <3>1 DEF Binds
    <3>3. puts[k].epoch + 1 \in 1..Len(log) /\ g + 1 \in 1..Len(log)
      BY <2>2, <2>3, <3>1 DEF g
    <3>4. puts[k].epoch <= g => entry \in dig
      BY <2>2, <2>3, <2>4, <3>2, <3>3 DEF dig
    <3>5. ASSUME puts[k].epoch > g PROVE ~Has(dig, AliceLabel(k - 1))
      <4>1. g + 1 \in 1..entry[2].epoch
        BY <2>1, <2>4, <3>2, <3>5 DEF g
      <4>2. \A j \in 1..entry[2].epoch : ~Has(log[j], entry[1])
        BY <2>3, <3>2, <3>3
      <4> QED
        BY <3>2, <4>1, <4>2 DEF dig
    <3> QED
      BY <3>2, <3>4, <3>5
  \* She has put no other version by then.
  <2>6. ~Has(dig, AliceLabel(Len(puts)))
    <3>1. ~Has(log[s + 1], AliceLabel(Len(puts)))
      BY <1>1, <2>1, <2>2 DEF IInv, AliceInv, s
    <3>2. ASSUME NEW entry \in dig, entry[1] = AliceLabel(Len(puts)) PROVE FALSE
      <4>1. PICK i \in 1..Len(log) : i = g + 1 /\ entry \in log[i]
        BY <2>2, <2>3, <3>2 DEF dig
      <4>2. /\ entry[2].epoch \in 0..(i - 1)
            /\ \A j \in (entry[2].epoch + 1)..Len(log) : entry \in log[j]
        BY <2>3, <4>1
      <4>3. s + 1 \in (entry[2].epoch + 1)..Len(log)
        BY <2>1, <2>2, <2>3, <4>1, <4>2 DEF g, s
      <4> QED
        BY <3>1, <3>2, <4>2, <4>3 DEF Has
    <3> QED
      BY <3>2 DEF Has
  <2>7. /\ g \in 0..(Len(hist) - 1)
        /\ (\A k \in DOMAIN puts : puts[k].epoch > g) => hist[g + 1] = NoEntry
        /\ \A k \in DOMAIN puts :
            puts[k].epoch <= g /\ (\A j \in DOMAIN puts : j > k => puts[j].epoch > g) =>
                hist[g + 1] = Entry(puts[k].pk)
    <3>1. g \in 0..(Len(hist) - 1)
      BY <2>1 DEF g, s
    <3> QED
      BY <2>1, <3>1 DEF HistOK
  <2>8. CASE got.isReg
    <3>1. PICK n \in Nat : Shows(bob.seenDigs[got.epoch].dig, n)
      BY <1>1, <2>1, <2>8 DEF IInv, BobInv
    <3>2. /\ \A ver \in 0..n : Has(dig, AliceLabel(ver))
          /\ \E entry \in dig : entry[1] = AliceLabel(n) /\ entry[2].commit.val = got.pk
          /\ ~Has(dig, AliceLabel(n + 1))
      BY <2>2, <3>1 DEF Shows, g
    <3>3. n + 1 \in DOMAIN puts
      BY <2>4, <2>6, <3>2
    <3>4. puts[n + 1].epoch <= g
      <4>1. Has(dig, AliceLabel(n + 1 - 1))
        BY <3>2
      <4> QED
        BY <2>1, <2>4, <2>5, <3>3, <4>1 DEF g
    <3>5. got.pk = puts[n + 1].pk
      <4>1. PICK entry \in dig : entry[1] = AliceLabel(n) /\ entry[2].commit.val = got.pk
        BY <3>2
      <4>2. PICK other \in dig : other[1] = AliceLabel(n) /\ other[2].commit.val = puts[n + 1].pk
        <5>1. n + 1 - 1 = n
          OBVIOUS
        <5> QED
          BY <2>5, <3>3, <3>4, <5>1
      <4>3. g + 1 \in 1..Len(log)
        BY <2>2, <2>3
      <4>4. other = entry
        BY <2>3, <4>1, <4>2, <4>3 DEF dig
      <4> QED
        BY <4>1, <4>2, <4>4
    <3>6. ASSUME NEW j \in DOMAIN puts, j > n + 1 PROVE puts[j].epoch > g
      <4>1. n + 2 \in DOMAIN puts /\ n + 2 - 1 = n + 1
        BY <2>4, <3>6
      <4>2. ~(puts[n + 2].epoch <= g)
        BY <2>5, <3>2, <4>1 DEF Has
      <4>3. j = n + 2 \/ puts[n + 2].epoch < puts[j].epoch
        BY <2>4, <3>6, <4>1
      <4> QED
        BY <2>1, <2>4, <4>1, <4>2, <4>3 DEF g
    <3>7. hist[g + 1] = Entry(got.pk)
      BY <2>7, <3>3, <3>4, <3>5, <3>6
    <3> QED
      BY <2>8, <3>7 DEF SameKey, Entry, g
  <2>9. CASE ~got.isReg
    <3>1. ~Has(dig, AliceLabel(0))
      BY <1>1, <2>1, <2>2, <2>9 DEF IInv, BobInv, g
    <3>2. ASSUME NEW k \in DOMAIN puts PROVE puts[k].epoch > g
      <4>1. 1 \in DOMAIN puts /\ 1 - 1 = 0
        BY <2>4, <3>2
      <4>2. ~(puts[1].epoch <= g)
        BY <2>5, <3>1, <4>1 DEF Has
      <4>3. k = 1 \/ puts[1].epoch < puts[k].epoch
        BY <2>4, <3>2, <4>1
      <4> QED
        BY <2>1, <2>4, <4>1, <4>2, <4>3 DEF g
    <3>3. hist[g + 1] = NoEntry
      BY <2>7, <3>2
    <3>4. got.isReg = FALSE
      BY <2>1, <2>9
    <3>5. ~hist[g + 1].isReg /\ hist[g + 1].isReg = FALSE
      BY <3>3 DEF NoEntry
    <3> QED
      BY <3>4, <3>5 DEF SameKey, g
  <2> QED
    BY <2>1, <2>8, <2>9
<1>2. IInv => BobGotAliceKey
  BY <1>1 DEF BobGotAliceKey
<1> QED
  BY <1>2, Invariance, PTL
=============================================================================
