# Verification of pav in TLA+

pav is a key-transparency service.  A server stores the public keys of users and
signs, epoch by epoch, the digest of a Merkle tree of hidden (user, version)
labels and committed keys; clients check every reply against the digest it comes
with; an auditor replays the server's updates and countersigns the digests.  If
the digests that two clients relied on are the auditor's, the clients agree on
whose key is whose, whatever the server did.

This directory holds TLA+ models of the components, translated from the Go code,
TLC configurations that check them on small instances, and TLAPS proofs.

## Inventory

| Component | Source | State | Operations | Talks to |
|---|---|---|---|---|
| Server | `kt/server.go` | `keyMap`, `userInfo`, `epochHist` under the RWMutex `mu`; keys and secret are constant | `Put`, `Get`, `SelfMon`, `Audit`; goroutine `Worker` with its `mapper0`/`mapper1` goroutines | queue of Puts; shared state with readers |
| WorkQ | `kt/workq.go` | queue, mutex, condition variable; per Work a mutex, a condition variable and `done` | `Do`, `DoBatch`, `Get`, `Finish` | threads of `Put` and the `Worker` |
| Auditor | `kt/auditor.go` | `keyMap`, `histInfo` under a mutex | `Update`, `Get` | pushers of updates, clients |
| Client | `kt/client.go`, `kt/evidence.go` | `nextVer`, `seenDigs`, `nextEpoch` | `Put`, `Get`, `SelfMon`, `Audit`, `Evid.Check` | server and auditor through RPC |
| Alice and Bob | `alicebob/` | Alice's history, Bob's result | the end-to-end test: Puts, a Get, SelfMon, audits, final check | two clients, server, auditor |
| Merkle tree | `merkle/` | a binary tree of hashed nodes | `Put`, `Get`, `Prove`, `Digest`, `Verify` | called by server, auditor, client |
| RPC | `kt/rpc.go` | none | handlers and call stubs, retry loops | advrpc |
| advrpc | `advrpc/` | a goroutine per connection and per request | `Serve`, `Call` | netffi |
| netffi | `netffi/` | a connection's ends, a mutex for each direction | `Dial`, `Accept`, `Send`, `Receive` | TCP |
| Data types | `kt/serde*.go`, `merkle/serde*.go`, `marshalutil/` | none | encode, decode | everything |
| Cryptography | `cryptoffi/`, `cryptoutil/` | none | hash, sign, VRF | everything |
| Serialisation compiler | `serde/` | the structs of a file | generate an encoder and a decoder | build time |
| Benchmarks, CI | `benchutil/`, `etc/` | none | - | - |

What is hard, and what makes each component correct:

* **Server.**  Concurrency: one writer, many readers, and phases of the writer
  that hold no lock.  Correct: every reply verifies; the calls are linearizable;
  the published updates replay to the signed digests; every call returns.
* **WorkQ.**  Concurrency at the level of wakeups.  Correct: no wakeup is lost,
  no call returns unanswered, batches are taken whole and in order.
* **Auditor.**  Concurrent, repeated, reordered and malformed updates.  Correct:
  a digest, once signed, is for ever the digest of exactly the entries added
  until then; an update is applied entirely or not at all; no input trips an
  assertion.
* **Client.**  Everything it receives may be forged except signatures.  Correct:
  it never goes back to an older epoch, evidence it reports convicts the server,
  and with the audits it gives the end-to-end promise of *Alice and Bob*.
* **Merkle tree.**  Correct: the digest is a function of the map, and no digest
  has a proof that a label is in and one that it is out.
* **RPC, advrpc, netffi.**  Connections that break in the middle of a frame, lost
  replies, repeated requests, goroutines that share a connection.  Correct: frames
  arrive whole and in order, a call returns the reply to itself and takes effect
  at most once, a reply can be encoded whatever it is.
* **The service as a whole.**  Correct: with honest parts nothing ever fails, the
  auditors hold the server's epochs, and the test program ends.
* **Data types and their compiler.**  Correct: what is decoded is what was
  encoded, a part is never taken for the whole, bytes have one meaning.
* **VRF.**  Correct: honest proofs verify; a key, honest or not, has one output for
  a message; different points have different outputs.

`PROJECT.json` lists the hazards at their lines, with the properties that cover
them; the one that none covers says why.

## Modules

    KeyMaps      key maps, their ideal digest and proofs, ideal signatures
      Merkle     the tree                   implements LabelMap
        MerkleProofs
      KtData     labels, values, membership proofs, the checks made of them
        Server   the server                 implements KeyDir
          ServerProofs   its invariants, and the refinement of KeyDir
          RpcServer  the server behind its handlers, which encode its replies
        Client   the client's checks
        KeyHistory   what Alice knows of her key at each epoch
          AliceBob   two clients against an untrusted server; uses AuditLog
            AliceBobProofs
          System     Server, clients, pusher and auditors; uses AuditLog
            SystemProofs   rests on ServerProofs
      Auditor    the auditor                implements AuditLog
        AuditorProofs
    WorkQ        the queue of Puts          implements BatchQ
      WorkQProofs
    Rpc          stubs, advrpc, netffi      implements RemoteCalls
      RpcProofs
    Marshal      readers and writers of bytes
      Netffi     frames on a byte stream    implements FrameQ
      Wire       the encoder and decoder of every message
      Compiler   the generator of encoders and decoders
    Vrf          the verifiable random function
    LibraryProofs    of Vrf and Wire
    MC*          constants for TLC; MCLibraries checks Wire, Compiler and Vrf

`KeyDir`, `BatchQ`, `AuditLog`, `LabelMap`, `RemoteCalls` and `FrameQ` are the
abstract specifications: what the component promises, without its locks, phases and
data structures.  They are also what joins the modules: `System` uses `AuditLog` for an
auditor, `Server` an atomic queue as `WorkQ` shows it, `Rpc` whole frames as `Netffi`
shows them, and all of them the ideal digest that `Merkle` shows.

### KeyMaps and KtData: ideal data

A key map is a function from labels to values.  Its digest is the set of its
entries, so that equal digests mean equal maps: this is collision resistance of
the hash together with the canonical shape of the Merkle tree.  A Merkle proof
carries the map it was made from and the label; it verifies against that map's
digest only; `Merkle` shows the same of the tree.  A signature is a record of key, epoch and digest; the modules never
construct one with a key its maker does not have.  A VRF label is the pair (uid,
version), and its proof is the same pair: the VRF is unique and verifiable.  A
commitment is its opening.

### Server

| Model | Code |
|---|---|
| `mu` | `s.mu`: the set of readers, and a writer that is absent, waiting (new readers are kept out, as in `sync.RWMutex`) or in |
| `keyMap`, `userInfo`, `epochHist` | the fields; a nil `userState` and one with zero versions are the same value, as all code treats them alike |
| `workQ` | the queue, atomic here; `WorkQ` has its locks |
| `wpc`, `work`, `outs0`, `todo`, `upd`, `idx` | locals of `Worker` |
| `pc`, `req`, `local`, `resp` | a thread in a call, its request, what it has read, its reply |

`WorkerGet` takes the queue and refuses duplicates; `Mapper0` and `Mapper1` are
one step per goroutine, in any order, interleaved with readers, since they hold
no lock; `WorkerWaitLock` and `WorkerLock` are the two halves of `Lock`;
`WorkerApply` is one iteration of the loop under the lock, without its assertion: `Put`
of the tree fails only for a label of a wrong length (`Merkle`), and labels are outputs of
the VRF; `WorkerPublish` signs the epoch and unlocks; `WorkerFinish` wakes one caller.  A
reader takes the lock, reads user and digest (`ReadUser`), and makes its proofs and unlocks
(`Get`, `SelfMon`), so that a lock too few or too short would show.  `AuditLock` takes the
lock, and `Audit` reads the epoch and unlocks, in the early return by an `RUnlock` of its own
(`EarlyRUnlock`): without it the next batch waits for ever, which breaks `CallsReturn`.  A
thread has one call at a time, and may follow it with any other.

### WorkQ

Every `Lock`, `Unlock`, `Wait` and `Signal` is a step of its own.  A thread that
waits on a condition variable is in its wait set until it is signalled, and
then has to take the mutex again before it tests its condition.  `Do` and `DoBatch`
share their actions: `Do` is a batch of one; `DoBatch` waits for its Works from
the last to the first.

### Auditor

`Check`, `Apply` and `SignDig` are the three parts of `Update` under the mutex;
`Apply` adds one entry at a time, in any order, as Go iterates over maps.  An
update is any function from labels, also of the wrong length, to values, also
such as do not decode, have bytes left over or carry any epoch.

### Client and AliceBob

A method of the client is a pair of operators: the error of the call for a given
reply (`PutErr`, ...) and the state after a call that succeeds (`AfterPut`, ...).
`AliceBob` is `testSecurity`: its actions take any reply out of a set and run the
client's checks on it.  `nextEpoch` wraps at `MaxUint`.

Simplifications: a failed `primitive.Assume` ends the run, as in the code.  The
code runs `alice.run` and `bob.run` in two threads; a call is one step here since
the clients share nothing.  `updAdtrsAll` and the audits run after SelfMon; the
updates that reach the auditor meanwhile are arbitrary.  `Client.Audit` is one step:
the auditor's log only grows at the end, so it makes no difference when each
epoch is asked for.

### System

`testAliceBob` with honest parts.  The server is `Server`, step by step, with
a thread for each user and one for the pusher.  A user's call is a step that submits
the request (`StartPut`, ...), the server's steps, and a step that checks the reply
and changes the client (`FinishPut`, ...), so that calls of several users overlap
as in the code.  `FetchUpdate`, `FetchedUpdate` and `PushUpdate` are the loop of
`updAdtrsAll`, an auditor at a time; `CliAudit` is `Client.Audit` with the loop of
`CallAdtrGet` as its guard.  Alice chooses among two keys; another user, Carol, puts as
well, or stops at any time.

### Rpc, RpcServer and Netffi

| Model | Code |
|---|---|
| `Rpc!Call`, `Send`, `SendFails`, `Receive`, `ReceiveFails` | a stub's loop around `Client.Call`: after an error the same request is made again on the same connection, which `netffi` has closed |
| `Rpc!Accept`, `Read`, `ReadFails` | `Server.Serve`, `Server.read`: a goroutine for each connection |
| `Rpc!Handle`, `Respond` | `Server.handle`: a goroutine for each request; an unknown procedure is not answered |
| `Rpc!Break` | TCP gives up: later frames under way are lost, each side notices when it next reads or writes, and not always then |
| `RpcServer!HandlerReply` | a handler encodes what the method returned; `EncodesReply` says whether the generated encoder gets through without a nil pointer |
| `Netffi!SendLock`, `Write`, `SendReturn` | `Send` under `sendMu`, a byte at a time |
| `Netffi!Receive`, `Read`, `HeaderDone`, `DataDone`, `ReceiveFails` | `Receive` under `recvMu`: the header and then the data, each a `ReadFull` |

`Rpc` takes frames whole, which is what `Netffi` shows of them; `Netffi` models one
direction of a connection, the other being the same with other locks.

### Merkle

A node is known by its path, the bits that lead to it from the root, so that `tree`
holds what the pointers hold and the recursion along a label is a choice of the depth where
it ends.

| Model | Code |
|---|---|
| `tree`, `NodeAt` | the nodes and their `child0` and `child1`; `Nil` where the pointer is nil |
| `GetBit`, `Path`, `SibPath` | `getBit`, and `getChild` at each depth |
| `EndDepth`, `Find`, `Siblings` | `find`: down to a leaf or nil, and the hashes of the siblings on the way back |
| `PutAt` | `put`: at the end of the path a new leaf, a new value (`ReplaceVal`), or inner nodes down to where two labels part (`ForkDepth`, `Split`); then `setInnerHash` up to the root |
| `HashUp` | the hashes on the way up, computed by `setInnerHash` and by the loop of `verifySiblings` |
| `Get`, `Prove`, `TreeDigest`, `Verify` | the functions of the same names |

Each node caches its hash as in the code; `ReplaceValOnly`, a fault, forgets to renew
it.  A hash is the term it is computed from; that the bytes which are
hashed make these terms distinct is `HashInputsDistinct` of `Wire`.  A proof is a
record, and `Wire` has its bytes, both as the generated encoder and as `prove`
writes them.

### Marshal, Wire and Compiler

`Marshal` has the readers and writers of `marshalutil` over sequences of
digits: a byte is a digit to base `Base`, an integer has `IntLen` digits.  In
`Wire` each encoder is the concatenation that the generated code makes, and a decoder
is the list of fields that it reads, in its order.  A message is encoded and
then arrives, or is cut, extended or altered at one byte; a map is written in any order.
`Compiler` translates a struct to the list of statements that `genEncode` and
`genDecode` print, decides whether Go accepts them (`Builds`: the functions called
exist, results and variables match, imports are used), and then runs the decoder
statement by statement, with its variables `b0, b1, ...` and `a1, a2, ...`.

### Vrf

The curve is a cyclic group of order `Cofactor * Order`, so that points with a part of
small order exist, as they do on edwards25519.  `Hash`, `Prove` and `Verify` are the code's
equations.  In `Commit` the points of a proof are chosen freely; since the challenge is
a hash of them, it is known only afterwards, and `OneOutput` says that who can answer
more than one challenge has the one right output.

## Runs

| Run | Question | Bounds |
|---|---|---|
| `server_safety` | Do phases without a lock, batches, duplicates and readers keep the server's invariants, do replies verify, are the calls linearizable? | 3 threads, 2 users, 2 keys, Puts are submitted while there are fewer than 2 epochs |
| `server_live` | Does every call return? | 3 threads, 1 user, 1 key, 2 epochs |
| `workq` | Is a wakeup ever lost, a call ever unanswered; does the queue implement an abstract batch queue, with its liveness? | 2 clients, 4 Works, batches of at most 2 |
| `auditor` | Can updates corrupt the audited map or its history; is the auditor an atomic log; does every call return? | 2 threads, a label and a malformed one, 2 commitments, Updates are submitted while there are fewer than 2 epochs |
| `alicebob_security` | Does Bob get Alice's key, with any server? | 2 Puts, 2 versions, epochs 0 to 3, largest integer 3 |
| `system` | With honest parts, does a check ever fail, do counts and logs agree, does the test end? | 3 users, 2 Puts each by Alice and Carol, 2 auditors, 5 epochs |
| `rpc` | Do calls return their own replies, take effect at most once, and return? | 2 clients with 2 calls each, 3 procedures of which the server has 2 |
| `netffi` | Do shared connections keep frames whole; are they delivered? | 2 senders, 2 receivers, 2 frames, of length 0 or 2 |
| `merkle` | Is the digest canonical; can proofs show anything false? | 5 of the 8 labels of 3 bits, a short one, 2 values |
| `libraries` | Do messages, generated code and VRF proofs mean what they should? | every type of message; structs of 1 and 2 fields of 14 types; 14 points |
| `rpcserver_refused` | Is a refused Put answered? (no) | 3 threads, 2 users, 1 key, 2 epochs |
| `compiler_golden` | Does the code of the golden files build? (no) | the two structs of `serde/testdata` |

`libraries` puts three modules into one run that have nothing to do with each other: an
initial state is one of one of them, and the others do nothing.

**Bounds.**  Three threads are the fewest with which a batch of two Puts, one of them
a duplicate, is worked on while a reader holds the lock, or with which a third Put
queues behind a batch; calls that are under way when the bound on epochs is reached still
finish, so that two or three batches follow each other and a user gets several versions.
Two clients are enough for one to sleep on a Work while another signals the queue, and
four Works let a caller return and be called again while the Worker still has the Work that
it left.  Two concurrent updates, with an entry and a malformed one and two values for it,
over two epochs, contain every repeated, reordered, refused and contradictory one, since
an update is judged by what is in the tree and by its length; that they are right for any
number of labels is proved (`AuditorProofs`).  Two Puts are the fewest after which Bob can
be shown an old key, and three epochs the fewest in which something can be hidden before,
between and after them; the largest integer, 3, is one above the last epoch that can be
audited.  In `system`, 5 epochs are one more than all Puts can make, so that the bound
is never met.  Two calls on a connection are the fewest with which a reply can come to the
wrong one, and two frames those with which one can be torn into the other.  The labels
of the Merkle run share prefixes of every length; every map over them, and every order of
Puts that leads to it, occurs.  Digits to base 3 and integers of two of them give
every message its lengths, an empty field and one longer than a neighbour's integer can
hold; what matters in a decoder is where it starts and stops, which each cut, added and altered
byte tests.  The group of the VRF has an order that is prime and a cofactor, with challenges
that are congruent modulo the cofactor: the only case in which a part of small order passes.
The next-state relations are symmetric in the sets of names, hence the symmetry of
`server_safety` and `rpcserver_refused`; runs with liveness use none.  `CHECK_DEADLOCK
FALSE` is set where the program may stop: the test program ends (`AliceBob`, `System`), calls
and frames are bounded in number (`Rpc`, `Netffi`), a crashed process does nothing
(`RpcServer`), and a message, a compilation or a proof has a last step (`libraries`,
`compiler_golden`).

**Fairness.**  The Go scheduler runs every goroutine: weak fairness of each
process.  `sync.Mutex` hands the lock to a goroutine that has waited for 1 ms
(starvation mode), and `sync.RWMutex.Unlock` admits the readers that wait before
the next writer: strong fairness of the steps that take a lock.  No fairness is
assumed of callers: a thread may never make another call.  In `System` Alice, Bob and
the test program go on, since a goroutine does; Carol need not.  In `Rpc` and `Netffi` the
goroutines of both sides run, and a connection that works delivers what is written to it;
nobody has to call, and no connection has to break.

**Mutants.**  Every property is shown to fail when one definition is changed the
way a bug would change it: a dropped lock, a forgotten signal, an unchecked bound.
The changed forms stand before the definition they replace, marked "Seeded fault";
no specification uses them.

**Findings.**  Two runs expect a violation:

* `rpcserver_refused`: two concurrent Puts of one user.  The Worker answers the
  second with a nil `Dig` (`kt/server.go:126`), the handler encodes it (`kt/rpc.go:22`) and
  `SigDigEncode` follows the nil pointer (`kt/serde.out.go:29`): the process
  stops, where `kt/server.go:43` says that the Put errors.
* `compiler_golden`: for a field with a constant, `genFieldDec` assigns three
  results (`serde/compiler.go:452`) of a function that returns two
  (`marshalutil/marshalutil.go:18`).  The code, as the golden file
  `serde/testdata/const/const.golden.go:18` has it, does not build; the compiler's
  test compares text and does not build it.

Two more things to know, which no run of its own shows.  `ReturnsUnlessBroken` leaves out
connections that break, and has to: a stub repeats its call on a connection that
`netffi` has closed, and nobody dials again, so that the loop of `kt/rpc.go:86` ("this
"removes" possibility of net failure") does not end; no call has the timeout of
`advrpc/advrpc.go:27`.  And an auditor accepts an update without entries at any epoch,
since there is nothing to compare: epoch 0 of the server is such a one, so that
`updAdtrsAll` of `alicebob/helpers.go`, which starts at epoch 0, must not run a second time
on the same auditors (the fault `NextSyncPoll`, which repeats that update, breaks
`AuditorsInSync`).

## Proofs

The theorems hold for any sets of threads, users, clients, works, keys and labels and any
number of epochs, Puts, calls and auditors.  What they assume are the `ASSUME`s of the
modules, each named, and the ideal data of `KeyMaps` and `KtData`; TLC evaluates each
assumption in the runs.  Most say that a number is a natural number or that two names
differ.  The others are

* `ReplyAssumption` (`AliceBob`): a reply is something that decodes, with integers that
  fit their width; nothing else is assumed of what a server replies;
* `EpochsFitAssumption` (`System`): a run has fewer epochs than a `uint64` can count;
* `ThreadAssumption` (`System`): each user has its thread, and the pusher has one;
* `MaxBatchAssumption` (`WorkQ`): a call has at least one work;
* `WidthAssumption` and `NodeAssumption` (`Marshal`, `Wire`): integers have a byte, and a byte has
  three values, for the tags of nodes;
* `UpdatesAssumption` and `MessagesAssumption` (`Wire`): a map is finite, and what is sent has its
  type; lengths fit an integer;
* `GroupAssumption` (`Vrf`): the order is prime and the cofactor no multiple of it, as the 8 of
  edwards25519 is not, and no challenge reaches the order.

In each module the argument is one inductive invariant, with a lemma for each action that
says that the action keeps it.  A refinement takes one more lemma per action: the action is
a step of the abstract specification, or none.

### ServerProofs

Proved of what `server_safety` checks on a small instance:

* `TypeCorrect`: `[]TypeOK`; among others the loop over a batch stays in it;
* `NeverPanics`: no assertion of `getHist`, `getLatest`, `getBound` or `mapper1` fails;
* `VersionsAreInMap`: the map holds exactly the versions below `numVers`, also
  while a batch is half applied, and the latest commits to the plaintext key;
* `HistoryReplays`: replaying the published updates gives every signed digest;
* `EveryReplyVerifies`: every reply passes its client's checks.

`mapper0` and `mapper1` read the server without a lock, and the properties
alone do not say why that is safe.  `IInv` adds to them:

* `PhaseInv`: which phase has the write lock, that no reader has the lock
  while a batch is applied, and where the loop counter is;
* `ThreadInv`: what a reader took under the lock is the current state until it unlocks;
* `QueueInv`: a thread that waits for the Worker is in the queue or in the
  unfinished part of the batch, once;
* `BatchInv`: the works that go on have distinct users.  This is what makes
  the labels that `mapper0` computed stay right while others are applied;
* `WorkInv`: what each phase leaves to the next.  After `mapper0` a work is
  `Prepared` (its labels and value are those the current server asks for); once
  its iteration is done it is `Applied` (its entry is in the map with this epoch and is
  the latest version); after `mapper1` its reply verifies;
* `MapInv`: the map is the last signed digest plus the updates applied since,
  which touch no label of that digest and carry the next epoch.

The last part of the module is the refinement.  `ServerIsLinearizable`: the server implements `KeyDir`.  A batch takes effect when
`WorkerPublish` signs its epoch, all its Puts at once and the refused ones with them; `Get`,
`SelfMon` and `Audit` take effect where they make their reply, under the read lock;
calls and returns are calls and returns; everything else changes nothing that a caller
can see.  The directory is read off the last signed digest.  Hence two facts about what it
says of a user:

* `VersionsNow`: unless a batch is being applied, its versions are those in the map
  below `numVers`;
* `VersionsBefore`: when a batch has been applied, the digest that is still the last has these
  versions but for the one that the batch added, if it has a Put of the user.

For the second, `SimInv` adds to `IInv` that each label added since the last digest is that
of a work that is done (`AddedInv`); for the calls, that a Put is refused only for another
one of its user's in the batch that is not (`RefusedInv`), and that a Put is answered with
the epoch and the version of its commit, though `mapper1` makes the reply later
(`AnswerInv`).

### AuditorProofs

Proved of what `auditor` checks:

* `TypeCorrect`: `[]TypeOK`;
* `NeverPanics`: what `checkUpd` accepts never trips the assertion in `applyUpd`;
* `HistoryIsExact`: each digest in the history is for ever that of exactly the
  entries stamped with its epoch or an earlier one;
* `LastIsCurrent`: outside an update, the last digest is that of the tree.

`HistExact` alone is not inductive, since it does not say what a half-applied
update may contain.  `IInv` adds that only the holder of the mutex is inside an
update (`MutexInv`); that what remains of the update being applied is well-formed, not in
the tree and stamped with the next epoch, and that the tree is the last digest plus
what has been applied (`ApplyInv`); and that no entry of the tree is stamped later
than the next epoch (`EpochInv`).

`AuditorIsLinearizable` is the refinement of `AuditLog`: a call takes effect when it gives
the mutex back.  For it, `MapInv` says that the tree is the last digest of the log and what
the update under way has added to it.

### WorkQProofs

Proved of what `workq` checks:

* `TypeCorrect`: `[]TypeOK`; the loop over the works of a call stays in it;
* `WakeupsAreNotLost`: whoever sleeps and has something to do is about to be signalled;
* `ReturnsAnswered`: a call returns when the Worker is done with all of its works;
* `Refinement`: the queue implements the safety part of `BatchQ`.

The code signals with `Signal`, which wakes one, and sets `done` under another mutex than
that of the queue.  That this is enough is in the invariant: each mutex is held exactly
between its `Lock` and its `Unlock` (`MutexInv`); a client sleeps on a work of its own and
saw it not done under the mutex that it gave back when it went to sleep (`SleepInv`); a
work belongs to one call, and those that the call is past are done and no longer anywhere
(`OwnInv`); a work is in the queue or in the batch once, and done exactly when it is not,
but for the one that is about to be signalled (`QueueInv`); the answer is written before
the flag (`AnswerInv`).

### RpcProofs

Proved of what `rpc` checks:

* `RepliesAlwaysMatch`: a call returns the response to its own request;
* `CallsAtMostOnce`: stubs, connections and goroutines implement `RemoteCalls`: a call
  takes effect at most once, before it returns.

A response carries no number that would tie it to a request.  The invariant says instead where a
client's call is (`Somewhere`): not yet sent or lost, on its way, with a goroutine that has
or has not handled it, or answered, with nothing else of that client anywhere.  A stub
that repeats its request does so on a connection that is closed to it, so that the
repetition adds nothing (`ClientOK`).

### AliceBobProofs

Proved of what `alicebob_security` checks, for any replies of the server and updates to the auditor:

* `HistoryNeverPanics`: the assertion of `extendHist` holds;
* `EvidenceAlwaysStands`: the evidence that a client returns convicts the server;
* `ClientsNeverRollBack`: no client goes back to an older epoch, and no digest that Alice relied
  on is replaced (an action property, from `Keeps`);
* `BobGetsAliceKey`: if all calls and audits succeed, Bob's key is the one in Alice's history.

The log of the auditor binds a label to one value, from the epoch in that value on and in no
digest before (`LogInv`).  `AliceInv` is what Alice was shown: her k-th version in the
digest of her k-th Put, and no version after her last in that of her SelfMon.  `BobInv` is what
Bob was shown: all versions up to the one he got, and not the next.  Once both have audited,
these digests are the log's (`AuditInv`), and the versions can be compared: a
version that Bob was not shown is one that Alice put later, and one that he was shown is
one that she had put, since her SelfMon shows that there are no others.  `ClientInv` ties her
history to her Puts.

### SystemProofs

Proved of what `system` checks:

* `NothingEverFails`: no check of an honest client or auditor and no assertion fails;
* `VersionsAlwaysAgree`: client and server count a user's versions alike, but for a Put under way;
* `AuditorsStayInSync`: the auditors' logs are the server's epochs, in its order;
* `BobGetsAliceKeyHonest`: Bob's key is the one in Alice's history at his epoch.

Every step of the system is a step of the server, or leaves the server alone, so that
`IInv` of `ServerProofs` holds here too.  `SysInv` adds who makes which calls (`ReqInv`),
that no Put is refused since a user has one outstanding (`AcceptInv`) and that the bound on
epochs is not met (`EpochBound`); how the counts of a client and the server compare in each phase
of a Put (`CountInv`, `PutInv`) and what a read has seen (`ReadInv`); that what clients have
seen is what the server signed (`ClientInv`), which makes Alice's history right (`HistInv`)
and Bob's result with it (`GotInv`); the phases of the test (`MainInv`); and which auditors
have the update that is being pushed (`SyncInv`, `AuditInv`).

### LibraryProofs

Two parts that have nothing to do with each other.  Of the random function, which
`libraries` checks on a group of 14 points, for a group of any size:

* `LabelsAreDistinct`: under a key that the client takes, messages with different
  points have different labels;
* `OneOutputPerLabel`: what `Prove` makes is verified with the output of the key, and who can
  answer two challenges for the points of a proof shows that output, whoever made the key.

Everything is said modulo `Order`, which is what clearing the cofactor leaves of a point
(`ClearFacts`).  `Order` being prime, what is no multiple of it has an inverse
(`HasInverse`, from the least positive number that is congruent to a multiple) and can
be cancelled.  Hence every key has an exponent, and one that is no multiple of `Order`
since `NewPublicKey` refuses the points of small order: multiplying by it keeps points
apart.  `TwoAnswers` subtracts the equations of `Verify` for two challenges and cancels
their difference, which is below `Order`.  The invariant keeps, of a message, that its point is
a cleared one, and of a proof, how it was made.

Of messages, which `libraries` checks on a few of each type, for bytes and integers of any
width and all messages:

* `MessagesRoundTrip`: a message is decoded to what was encoded, in whatever order Go wrote
  the entries of its map; what follows it is left alone; a message cut anywhere is refused;
* `EncodingsAreExact`: bytes that decode to a value of a type without flags and maps are its
  encoding, also if nobody encoded them;
* `NodesHashedApart`: no two nodes of the Merkle tree are hashed from the same bytes, which is
  why `Merkle` may take hashes as terms.

What is proved of a decoder is that it is a `Codec`: it reads each value of its type from
its encoding, whatever follows (`Reads`), and what it reads depends on no byte after those
that it read (`Local`).  The second is why a cut message is refused: had its decoder
succeeded, it would on the whole message leave the bytes that were cut.  A codec is
`Exact` if what it read is the encoding of the result; flags are not, since any
byte but 0 is read as `true`, and maps are not, since their entries have many orders.
Integers, byte strings and flags are codecs; slices (`SlicesCodec`) and structs
(`StructCodec`) of codecs are; then each type is, in the order of the source.  What `ReadParts`,
`FlattenSeq`, `Shifted` and `Value` compute recursively is shown at each point by its least
exception (`LeastNumber`), and a lemma says so of any function that is defined by its
first value and a step (`Recursion`).  The invariant `OnTheWay` says what became of the encoding that was sent.

### MerkleProofs

Proved of what `merkle` checks on labels of three bits, for labels of any length:

* `TreeImplementsMap`: with its splits and replacements the tree is the map of what was
  put: a Put gives its label the value, and no other label changes;
* `DigestAlwaysIdeal`: the cached hash of the root is `MapDigest` of the entries,
  which does not mention the tree, and no other map has that digest.  This is the ideal
  `Digest` of `KeyMaps`, on which the theorems of the other modules rest;
* `ProofsAlwaysDecide`: what `Prove` makes is accepted, also for labels of a wrong length;
  and no proof with siblings from the tree shows a wrong value, or absence of a
  label that is there.

`TreeInvariant` is what they rest on, `TreeInv` in three parts: what is at a path is a
leaf on the path of its own label, or an inner node with the hash of its
children as they are now (`NodesInv`); all above a node are inner nodes
(`AboveInv`), so that a path has one end; and two labels or more are below each inner
node (`BelowInv`).  The last is what makes the shape canonical: without it the same entries
would have several digests, and `put` keeps it only because it splits a leaf
until the paths part.

`HashUp` and `MapDigest` are recursive functions.  The provers unfold one at a point, and
what holds at all points is shown by its least exception: a set of numbers that is not
empty has a least one (`LeastNumber`), which is the induction available
to these proofs.  Soundness goes down from the digest: a list of siblings that hashes to it has, at
each depth, the hash of the node that is there, since hashes are terms; so its last hash is that
of the end of the label's path.

### Only model-checked

* All liveness (`CallsReturn`, `Finishes`, `ReturnsUnlessBroken`, `Delivered`, and that part of
  `ImplementsBatchQ`), which TLAPS does not prove under fairness.
* `Compiler`: its definitions are recursive operators, over types and lists of fields,
  which TLAPS cannot unfold; that what it generates for the types of the service is right is
  what is proved of `Wire`, which is translated from the generated files.
* `Netffi`: what is under way is a fold over the receivers and a recursive sum over frames, and
  the length of a frame is read from powers of `Base`, of which the provers know nothing.
* `RpcServer`: its run looks for a violation.

## Not modelled

* SHA-256, SHA-512, Ed25519 and the arithmetic of the curve: libraries, taken as ideal
  (collision-free, unforgeable, a group).  Key generation and randomness.
* TCP below `Netffi`, and addresses.
* Capacities of slices and sizes of buffers that are taken from the wire: what is
  decoded does not depend on them.
* In the compiler: loading the package, finding its structs and comments, and printing,
  which are libraries for Go source; the `ReadConst` functions beyond the number of their
  results, since no code that calls them builds.
* Benchmarks and build scripts: measurement, no state of the service.
* Restarts: nothing is stored, so that a process that stops is a new service.

## State

Modelled: every component above at the detail named.  Proved: the safety of `Server` and its
linearizability, of `Auditor`, `WorkQ`, `Rpc`, `AliceBob`, `System`, `Merkle`, `Vrf` and
`Wire`.  What stays with TLC is listed under *Only model-checked*, with the reasons.
