# A formal model of schc-over-sigfox-c

The repository implements SCHC fragmentation (RFC 8724, ACK-on-Error) over
Sigfox in C: a packet is cut into fragments, grouped in windows, the fragments
are sent one by one, and *Compound ACKs* report which of them the receiver
lacks. This directory holds TLA+ models of it, TLC configurations that check
them, and TLAPS proofs.

## 1. Inventory

| component | source | state | operations |
|---|---|---|---|
| SCHCSender | `src/entities/schc_sender.c` | the fragments, a transmission and a retransmission queue of pointers to them, `attempts`, `rt`, `sender_abort` | `sender_start` loops over `schc`, which sends one fragment, waits for an ACK when one is due, and updates the queues |
| Sigfox client socket | `src/sockets/sigfox_socket.c` 12-108 | `buffer`, `expects_ack`, the kernel's queue of datagrams | send (and, when an ACK is expected, a blocking receive), receive (from `buffer`) |
| Sigfox server socket | `src/sockets/sigfox_socket.c` 110-201 | `cli_addr`, the address of the last `recvfrom`, and `buf` | receive (which notes the address), send (to that address); used by the tests only |
| FIFOQueue | `src/entities/fifo_queue.c` | a ring of pointers, `head`, `tail` | put, get, is_empty |
| Fragment messages | `src/messages/fragment.c` | none | generate a fragment or a Sender-Abort; tell All-0, All-1, Sender-Abort, window, index |
| Compound ACK messages | `src/messages/ack.c` | none | generate an ACK or a Receiver-Abort; parse windows and bitmaps; tell complete, compound, Receiver-Abort |
| Rule | `src/entities/rule.c` | none | field sizes from the first bits of a message; three formats |
| F/R procedure | `src/entities/fr_procedure.c` | none | split a packet, count fragments and windows, reassemble |
| SCHCSession | `src/entities/schc_session.c` | bitmap, requested fragments, last fragment, last ACK, aborted, timestamp | the receiver's checks and updates, one function each; the function that drives them is a comment (287-322) |
| SCHCReceiver | `src/entities/schc_receiver.c` | none | no code |
| Utilities, configuration | `src/utils`, `src/config` | global constants | conversions; `MAX_ACK_REQUESTS`, timeouts, loss rates |

How they interact. `sender_construct` splits the packet and makes two rings
large enough for it. `sender_start` takes a pointer from the ring that `rt`
selects and calls `schc`, which sends the fragment through the client socket.
When the fragment is an All-0 (last of a window) or the All-1 (last of the
packet) and nothing is waiting for retransmission, sending also *blocks* for an
answer. The answer either ends the transfer or adds fragments to the
retransmission ring; a timeout of the All-1 puts it back in the transmission
ring, and after `MAX_ACK_REQUESTS` of them turns it, in place, into a
Sender-Abort.

What is hard to test. There is one thread per peer, so the difficulty is not
shared memory but the order of events on an unreliable datagram channel with
timeouts: an answer that arrives after the sender gave up waiting stays in the
socket and is read as the answer to a later request; a failed send leaves an
answer in `client->buffer`; queued pointers lead to a fragment that is
overwritten in place; several counters, flags and queues must agree along long
sequences; and some messages are told apart by their length or by being all
zero. `PROJECT.json` lists the hazards one by one, at their lines, with the
properties that cover each.

What makes each component correct:

* *FIFOQueue* is a bounded FIFO.
* *SCHCSender* takes its next fragment from a queue that has one, keeps exactly
  one ACK-REQ pending, asks for an ACK only about what was sent, retransmits
  what is missing once and in order, never loses a pointer to a full ring (as
  long as its peer writes ACKs about the packet, see section 4), limits its
  requests, and returns.
* *The transfer* (sender, channel, receiver) completes only when the receiver
  has the packet, completes when the network fails it less than
  `MAX_ACK_REQUESTS` times, and ends in any case.
* *SCHCSession* keeps its bitmap and its stored fragments in agreement, reports
  exactly what it lacks, never overwrites a fragment, stays aborted once it is,
  and recognises the retransmission of an All-1 it already answered.
* *The sockets* hand out an answer once.
* *Rule, messages, F/R procedure*: what is generated parses back, and
  reassembly inverts fragmentation.

## 2. Modules

| module | models |
|---|---|
| `FIFOQueue` | `fifo_queue.c`: `head`, `tail`, the array, what a call returned |
| `BoundedFIFO` | the abstract queue that `FIFOQueue` implements |
| `SCHCSender` | `schc_sender.c` with the client half of `sigfox_socket.c`, against any peer |
| `SCHCTransfer` | `SCHCSender` with a channel in both directions, a budget of faults and a truthful receiver |
| `PacketTransfer` | the abstract service that `SCHCTransfer` implements |
| `Rule` | `rule.c` with the conversions of `casting.c` it needs: three formats, and how a Rule is told from the first byte of a message |
| `Fragment` | `fragment.c`: fields, predicates, `generate_frg`, `generate_sender_abort` |
| `FRProcedure` | `fr_procedure.c`: `fragment`, the counts it works with, `get_packet_length_from_array`, `reassemble` |
| `Reassembly` | a packet cut, its Fragments stored in any order or lost, the array reassembled |
| `CompoundACK` | `ack.c`, bit by bit: `generate_ack`, `generate_receiver_abort`, the predicates and `get_ack_tuples` |
| `AckExchange` | an ACK written by a receiver and read by a sender |
| `SCHCSession` | `schc_session.c`, one operator per function |
| `SessionReceive` | the life of a session, along the draft of `session_schc_recv` |
| `SigfoxSocket` | `sigfox_socket.c`: several clients, the server, the datagrams and timeouts between them |
| `Ascending` | loops over an index that goes up, used by `SCHCSender` and `CompoundACK` |
| `MC...` | constants of small instances |
| `..._proofs` | theorems and proofs |

`Rule` is used by `Fragment`, which is used by `FRProcedure`; `Reassembly` drives
these three. `CompoundACK` extends `Rule` and is driven by `AckExchange`.
`SCHCSession` puts both sides together and is driven by `SessionReceive`.

### SCHCSender

State. `transmission_q` and `retransmission_q` are the contents of the two
rings, as `FIFOQueue` justifies. They hold pointers: `&s->fragments[i]` is the
number `i`, `&s->sender_abort` is `SENDER_ABORT`. `generate_sender_abort`
overwrites a cell in place, so the content of a cell is not part of a queue:
`aborts` is the set of cells that now hold a Sender-Abort, and the predicates
of `fragment.c` (`is_frg_all_1`, ...) are operators on a pointer that consult
it. `attempts` and `rt` are the fields of those names, `buffer` is
`client->buffer`, `frg` and `pc` are where `schc` stands, `result` is what
`sender_start` returned.

Parameters. `NbFragments`, `WindowSize` and `MaxWindowNb` are the shape of the
packet under its Rule. Two constants stand for the bits of the Rule:
`AbortIsShort` (a Sender-Abort has fewer bits than the All-1 header; true of the
single-byte Rule and of the double-byte Rule with options, false of the
double-byte Rule without) and `ZeroRuleId` (Rule ID 0). `MaxTuples` is the
number of tuples `get_ack_nb_tuples` can find in one message, 4, 3 and 1 for the
three formats. `Acks` is the set of downlink messages a peer may send; an ACK is
what `get_ack_tuples` makes of one, a sequence of (window, bitmap) tuples in the
order of the message, with a kind (losses, C bit set, Receiver-Abort). The
windows need neither ascend nor differ: `generate_ack` writes them that way, and
what rests on it is said below. `tuples_read` is the scan, which stops at a second
tuple that seems to be of window 0; `refused` compares the window of the last
tuple, and `losses` are the fragments to queue in the order of the two loops. A
full ring drops what does not fit (`fq_put_all`), as line 118 ignores.

Actions. `schc` is cut where the outside world acts:

| action | code |
|---|---|
| `Start` | the first loop of `sender_start` |
| `FetchTransmission`, `FetchRetransmission` | 229-233 with the increment of `attempts` (180) |
| `FetchInvalid` | the same lines when they yield `NULL` or a pointer past the fragments |
| `QueuesDrained` | the loop ends: 243 |
| `SendPlain`, `SendPlainFails` | 185-194 when no answer is awaited; `sendto` works or fails |
| `SendRequest`, `SendRequestFails` | `sgfx_client_send` up to its `recvfrom`; it blocks in either case |
| `LoseRequest` | the simulated loss of `schc_send` (131-136): no `recvfrom`, but `schc_recv` still reads `buffer` |
| `Answer`, `LoseAnswer`, `Expire` | the `recvfrom` ends with a message, with one that the simulated loss of `schc_recv` drops, or by its timeout |
| `AnswerUnsent`, `ExpireUnsent` | the same after a failed `sendto` |

Each of them runs to the next of these points: `timeout_procedure`,
`process_ack` (lines 199-221, with `update_queues`) and `update_rt` are parts of
the actions, in the order of the code.

### SCHCTransfer

`uplink` and `downlink` are the datagrams in flight (or unread in a socket), in
order: the code talks to one peer over one socket, and reordering would change
nothing the sender can tell from a late answer. The receiver is not in the
repository (`RECEIVER_URL` names a service, `schc_receiver.c` is empty); it is
modelled as what the sender expects: it answers an All-1 with the losses it has
or a complete ACK, may answer an All-0 with its losses, and may give up with a
Receiver-Abort (`peer` becomes `"gave_up"`), after which it is silent.
`TruthfulAcks` are the messages such a receiver has, and `AcksAreTruthful` fixes
the parameter `Acks` of the sender to them.
Everything a network may do costs one of `MaxFaults` faults: a message lost on
the way, a simulated loss, a failed `sendto`, and a timeout that fires while an
answer is still to come. A timeout with nothing in flight is free.
`PacketTransfer` is the view of the user: fragments are delivered in any order
and the sender reports one outcome.

`SCHCSession` is not composed as the receiver here. By the finding
`session_complete` it never generates a complete ACK, and what the draft leaves
to its caller (when to remember, to request, to start again) does not exist yet;
a composition would check decisions of this model, not of the code.

### Rule, Fragment, FRProcedure, Reassembly

A Rule is the record of its fields, derived from its id as `init_rule` does.
`parse_rule_from_bytes` reads the bits of the first byte; `init_rule` is a Rule
from an id, and `init_rule_from_frg` shows that it gets a whole message where
one byte is meant. The header of a Fragment is the record of its fields, each
cut to the width the Rule gives it, with its size in bytes; the payload is a
piece of a packet, `[packet, from, size]`. What a bit-level model would add, the
packing of fields into bytes, is left out; that a field is cut to its width is
what the properties are about.

`Reassembly` has one action for `fragment`, one for the store of a Fragment
where `get_frg_nb` puts it, and one for `get_packet_length_from_array` and
`reassemble`, which can be called at any time: Fragments not stored by then are
the lost ones. When a null Fragment comes before the All-1,
`get_packet_length_from_array` ends without a `return`: `length` is then any
member of `Leftovers`, the values that may be where the caller looks for a result.

### CompoundACK, AckExchange

An ACK is the sequence of its 64 bits, because what `ack.c` must get right is
where one tuple ends and the next begins: `get_ack_nb_tuples` counts by
scanning for tuples that are not zero, and an ACK, a Receiver-Abort and a
complete ACK are told apart by the C bit, one window field and the padding. The
bitmaps are sequences of bits, or `<<>>` for the blank string that
`session_check_bitmaps` leaves when a window lost nothing.

### SCHCSession, SessionReceive

The session is a record with the fields of the struct; `fragments` maps each
slot to a Fragment or `NULL_FRG`, `bitmap` and `requested_frg` are the sets of
positions at which those strings have a 1, as every function that uses them
only tests or sets one position. Every function is an operator from session to
session (or to its result).

The function that would call them, `session_schc_recv`, is a comment
(`schc_session.c` 287-321; `src/README.md` 38-47 lists it as to be done).
`SessionReceive` follows that draft line by line, one disjunct of `Recv` for
each way out. The environment sends Fragments of two packets and their
Sender-Aborts, in any order, any number of times. What the draft leaves to the
caller is external: `Remember` (`last_fragment`, `last_ack`), `Request`
(`session_update_requested`) and `StartNewSession`, set as the header comments
and the tests set them. A restart retains the last Fragment and ACK or does not:
the draft itself calls `start_new_session` without retaining them, the header
(162-164) and the tests describe and exercise both.

Points to know when reading it:

* a regular Fragment that comes twice is "not expected" and restarts the
  session under the draft; `KeptUntilRestart` allows it;
* under the double-byte Rule with options a Sender-Abort reads as an All-1 with
  RCS 0 in the session's functions; `SenderAborts` leaves those out;
* after a retaining restart, the All-1 retained may come again: it is registered
  and not stored (see `session_retained`). `BitmapMatchesStore` allows the one bit
  this can set, and `EveryLossReported` is what it breaks;
* `LossesReported` is stated while the session holds one packet: with a Fragment
  of another one, a full window can look lost and be left out. A bit without a
  Fragment hides its own loss, and in the window of the Fragment that asked it
  can fill a window in the same way. The property also takes that all the windows
  with losses are among those a sender reads (4, 3 or 1 of them): always so in
  the run, whose packets have two windows, and under a single-byte Rule; the
  theorem `LossesAreReported` has it as a hypothesis.

### SigfoxSocket

Each client is its `SigfoxClient` struct with the timeout its kernel socket got,
and a flag while it blocks in the `recvfrom` of `sgfx_client_send`. Of an uplink
datagram only its sender matters. The server is `cli_addr`: `sgfx_server_recv`
sets it, one that expires leaves it as it was, and `sgfx_server_send` may be called
at any time with any buffer, which goes to the client heard last. Buffers are
numbered as they are sent, and an all-zero one is `NoMessage`, as
`sgfx_client_recv` takes it. With more than one client a server can so send the
answer for one to another; the headers speak of one client and promise nothing
here, and no property asks for it. `timeval` is the conversion in both
`set_timeout` functions, whose argument is a `float` of seconds (here an integer
of milliseconds): the fraction is cut to an `int` before it is scaled, and a zero
`timeval` disables the timeout. Datagrams are lost in both directions and `sendto`
may fail.

## 3. Runs

| run | question | instance | distinct states |
|---|---|---|---|
| `sender` | do the queues hold what they must, is no put refused, are requests limited, and does `sender_start` return? | 5 fragments in windows of 2 (the All-1 alone in the last), 3 tuples per ACK, 3 requests, failing sends; every ACK `generate_ack` can write about the packet, and those about a fourth window or whole windows | 3 810 |
| `transfer` | is one request pending, is an outcome true, is giving up justified, does every transfer end, and is the packet delivered and known to be? | 8 fragments in the 3 windows of 3 of a Rule, 3 requests, 4 faults, failing sends, a receiver that may give up | 69 195 |
| `fifo_queue` | is the ring a FIFO? | 4 slots, 3 objects, all states of both indices | 425 |
| `fragmentation` | does what is generated parse back, and does reassembly invert fragmentation? | every Rule ID of the three formats, the lengths around every change of the number of fragments, all lengths to 56 bytes, 2 values of an unreturned length | 94 039 |
| `ack_exchange` | does the sender read what the receiver wrote? | one Rule of each format, every window, 3 or 5 bitmaps per window | 68 408 |
| `session` | do the session's pieces agree, whatever arrives? | windows of 2, a packet of 4 fragments and one of a single fragment, both kinds of restart, inactivity after 1 of 2 ticks | 198 256 |
| `sigfox_socket` | is no answer handed out twice? | 2 clients, 2 messages each, 3 buffers from the server, timeouts of 0.5 and 1.5 s | 522 378 |
| `stale_rt`, `long_abort`, `all_zero_ack`, `session_complete`, `session_retained` | the findings below | | |

The properties:

* `RetransmissionOrdered`, `RequestsBounded`, `NoWaitAfterAbort`, `NoRefusedPut`,
  `RequestAfterFragments` and, in `transfer`, `RequestPending`: the state of the
  sender, as the comments in `SCHCSender` explain each. `NoRefusedPut` looks at
  every ACK the peer may send next and asks that the ring take all the fragments
  it would queue. It and `RetransmissionOrdered` rest on ACKs whose windows ascend:
  a message that repeats a window queues its losses twice. `RequestPending` rests
  on a peer that names windows of the packet, which the receiver of `transfer` does:
  in `sender` an ACK about a later one is refused and the All-1 not put back, so
  that the loop drains. `RtNamesQueue` needs sends that work, which is its finding.
* `EventuallyReturns`: `sender_start` returns, or the counter of requests is reset
  infinitely often. The escape is needed: a peer may report the same loss forever,
  and every answer resets `attempts`. With failing sends it may also end at the
  `NULL` of `stale_rt`.
* `ImplementsService`: `SCHCTransfer` implements `PacketTransfer`.
  `NoContradiction`: the branch "reported no missing Fragment" of
  `update_queues`, which makes the sender give up, is never taken with a
  truthful receiver. `AbortNeedsFaults`: the sender gives up only after the
  network failed at least `MAX_ACK_REQUESTS` times, or on a receiver that gave
  up: a Receiver-Abort is sent once, and the silence after a lost one costs a
  single fault.
* `TransferEnds`, `EventuallyCompleted`: liveness under a bounded number of
  faults. Both except the end that `stale_rt` describes, which a refused
  `sendto` can bring about here as well.
* `SlotsInUse`, `ImplementsFIFO`: the ring.
* `FragmentsFit`, `FragmentsRecognised`, `RuleRecognised`: headers.
  `PacketRestored`: reassembly, with and without losses. `LengthIsPacketSize`:
  the length of a whole packet, which is where the last write ends.
* `KindReadBack`, `TuplesReadBack`, `TuplesReadExceptFourth`, `RuleFromAck`: ACKs.
  The third leaves out the one report of losses that is not read as a whole
  (section 4).
* `BitmapMatchesStore`, `LossesReported`, `AbortDelivered`, `KeptUntilRestart`,
  `PendingAckAnswered`: the session. `LossesReported` goes through the bits of
  the ACK: it compares what a sender would read with what is stored.
* `ReadOnce`: the sockets.

Bounds. The sender has no constant that depends on the number of windows beyond
two; three windows give an ACK about the current window, an earlier one, and
two losses beside each other, and both shapes of the last window occur: the
All-1 alone in `sender`, in company in `transfer`. `attempts` saturates at `MaxAckRequests + 1`
(`AttemptsBound`): it is only compared with `MaxAckRequests`. The queues need no
bound: the theorems below show that they stay within their rings. In `transfer`
there is one fault more than requests, so that the sender gives up in some
behaviours and in others recovers just before; `EventuallyCompleted` is about
those with fewer faults than requests. In `fragmentation`, `MaxHoles` is how many
lacking Fragments one that is stored may overtake: 6, all that a packet of 56
bytes has, and none for the long packets, whose Fragments arrive in order and
may stop anywhere. In `ack_exchange` the bitmaps are blank, full, empty, or lose
the first or last position: the code looks at a bitmap only as a whole (all
zero, all one, blank). The Rule of `session` has the shape of the single-byte one
with two windows of 2, so that all orders of 5 Fragments and restarts between
them stay in reach: one packet fills both windows, the other has its All-1 where
the first has a regular Fragment, which is what a retained All-1 can confuse. In
`session_complete` it is the single-byte Rule itself. `MaxTime` ends the clock
after one tick that is in time and one that is not; the timestamp is only
compared with the present. `MaxSeqnum` is 2: an answer to the first message
that comes during the second is the interesting case; `MaxAnswers` is 3, so that
one can be read, one buffered and one in a socket. In `fragmentation`, `Leftovers`
holds two values, 1 and 22: whatever the length of a packet is, one of them differs.

Fairness. The sender is one thread that blocks only in a `recvfrom` with a
timeout (`SO_RCVTIMEO`), so some action of it is always possible and it takes
one: `WF_vars(Next)`, `WF_tvars(Sender)`. The receiver is assumed to read what
arrives: `WF_tvars(Receiver)`. The first would not be justified under a
timeout below a second, which blocks (section 4); `src/config/schc.c` has none. `sigfox_socket`
has one, so that its clients may block for good: it does not check for deadlock, as
the system really stops there. No fairness is asked of losses, nor of any
particular answer.

## 4. Findings

* `stale_rt`: when the send of a retransmitted All-0 fails, `schc` returns at
  line 185, before `update_rt` (187). If that fragment was the last to
  retransmit, `rt` stays set over an empty queue, and line 232 hands the `NULL`
  of `fq_get` to `schc`. The header says `update_rt` "should be called before
  and after processing an ACK" and `fq_get` "Returns NULL if the queue is
  empty".
* `long_abort`: under the double-byte Rule without options a Sender-Abort and
  the All-1 header both take 16 bits, and `is_frg_sender_abort` asks for fewer.
  The sender then takes its own Sender-Abort for an All-1, waits for an answer
  and queues it again, although `schc` "Returns SCHC_SENDER_ABORTED on sending a
  Sender-Abort". Nothing stops it: under this Rule a silent peer keeps
  `sender_start` running forever.
* `all_zero_ack`: under Rule ID 0, an ACK that reports all of window 0 lost, and
  no other window, is eight zero bytes, which `sgfx_client_recv` takes for
  silence. The sender asks `MAX_ACK_REQUESTS` times, is answered each time, and
  gives up.
* `session_complete`: with every Fragment of a packet stored, no complete ACK is
  made. `session_check_bitmaps` expects the All-1 in the last position of its
  window (line 263), where `session_update_bitmap` (205-208) registers it at
  position RCS - 1: a whole packet is reported as having lost its last window.
  When the last window is full, the bitmaps stay blank with C = 1, and
  `generate_ack` refuses (`ack.c` 185-188).
* `session_retained`: `start_new_session(s, 1)` keeps the last Fragment "to detect
  All-1 retransmissions". When that All-1 comes again it is refused by
  `session_store_frg` and registered by `session_update_bitmap` (207), so that the
  new session has a bit for a Fragment it never received. The next packet's
  Fragment at that position is not reported when it is lost.

Further divergences, which the properties state around or which the models contain
without a property to name them:

* `update_queues` ignores the result of `fq_put` (`schc_sender.c` 118), which "Returns
  -1 if the queue is full" (`fifo_queue.h` 47), and returns 0 although it "Returns -1
  on errors" (`schc_sender.h` 91). A Sender-Abort that is taken for an All-1 carries
  the last window number there is, so that line 90 lets an ACK through that names
  windows behind the packet; such an ACK, or one that names a window twice, can ask
  for more fragments than the ring has slots, and the rest is dropped. With 5
  fragments in windows of 2 and a long Sender-Abort, an ACK that reports the windows
  0, 1 and 3 lost asks for 6 and there is room for 5. `NoRefusedPut` is false there,
  and is stated of ACKs about the packet.
* `get_packet_length_from_array` "obtains the size of the SCHC Packet that the array
  will reassemble into" (`fr_procedure.h` 45-46) for any array that a null Fragment
  ends, but reaches its end without a `return` (`fr_procedure.c` 79) when that null
  comes before an All-1: the caller uses an arbitrary int. `LengthIsPacketSize` is
  stated of whole packets.
* `get_ack_nb_tuples` "Obtains the number of (window, bitmap) tuples present in the
  ACK" (`ack.h` 93), but its scan (`ack.c` 69) ends `tuple_idx` bits too early: under
  the double-byte Rule without options `generate_ack` writes four tuples, up to
  bit 63, and three are read. The sender asks again for the
  fourth. `TuplesReadExceptFourth` leaves this case out.
* the argument of `sgfx_client_set_timeout` is the "amount of time to wait during
  recv()" (`sigfox_socket.h` 80), but its fraction is cut to an `int` before it is
  scaled (`sigfox_socket.c` 85, and 178 in the server): below a second the `timeval` is
  zero, and a wait whose answer is lost never ends.
* `init_rule` (`rule.c` 41) takes the id of the double-byte Rule with options
  from the end of the bytes it is given: right for the one byte that
  `parse_rule_from_bytes` passes, wrong for the whole message that
  `init_rule_from_frg` and `init_rule_from_ack` pass. `RuleRecognised` and
  `RuleFromAck` state both for the other formats.
* `session_has_pending_ack` (`schc_session.c` 187) compares kinds, not contents:
  the All-1 of the next packet is answered with the last one's ACK.

## 5. Proofs

`tlapm` checks the following for every value of the constants that the named
assumptions of the modules allow.

The sender, in `SCHCSender_proofs` (any packet, window size, number of windows
and any set of ACKs):

* `TypeCorrect`: `Spec => []TypeOK`, which is not inductive. The invariant `IInv` adds that a Sender-Abort
  only ever overwrites the All-1 or the cell reserved for it
  (`RequestAborts`), that the retransmission queue holds neither
  (`RetransmissionRegular`; the lemma `MissingInWindow` shows that cutting the
  bitmap of the last window is what keeps the All-1 out, by the arithmetic of
  division), that `rt` is up when there is something to retransmit
  (`RtCoversQueue`), and that a fragment taken from the transmission queue leaves
  room for what may be put back (`RoomForRequest`). `AscendingProperties` and
  `PutAllProperties` give the contents of the queue after an ACK.
* `RtIsSound`: `RtNamesQueue`, if `sendto` never fails. The hypothesis cannot be
  dropped (`stale_rt`).
* `AbortIsFinal`: `NoWaitAfterAbort`, if `AbortIsShort`; see `long_abort`.
* `RequestsAreBounded`: `RequestsBounded`, if `AbortIsShort` and the limit is not
  disabled. The invariant `RequestInv` says that the counter is below the limit
  unless a request is out or the All-1 has been turned into a Sender-Abort.

Its queues, with failing sends and under every Rule:

* `QueuesNeverRefuse`: `NoRefusedPut`. An ACK finds the retransmission queue empty
  and asks for regular fragments in ascending order, of which there are fewer than
  slots; `RoomForRequest` gives the other half.
* `RetransmitsInOrder`: `RetransmissionOrdered`, by `OrderedInv`, which adds that
  an answer is only awaited without the flag `rt`: an ACK therefore finds the
  retransmission queue empty, and what it puts there is in order
  (`MissingAscending`, `PutAllOrdered`).
* `RequestComesLast`: `RequestAfterFragments`, by `ShapeInv`: the transmission
  queue is a run of regular fragments followed by requests, and a request that
  was taken leaves none of them behind.
* `OneRequestPending`: `RequestPending`, by `PendingInv`: some request is in the
  queue or in the hands of `schc`, and the Sender-Abort cell is used only when
  it is marked. `RequestWindow` shows that an ACK in answer to a request is
  never beyond the request's window, so that the early `-1` of `update_queues`
  (line 217, which would drop the request) is not reached.

`QueuesNeverRefuse`, `RetransmitsInOrder` and `OneRequestPending` assume `PacketOnly`,
that the peer names windows of the packet, and the first two also `WellOrdered`,
that the windows of a message ascend, as `generate_ack` writes them. Neither can be
dropped: with windows beyond the last one, `get_bitmap_to_retransmit` does not cut
the bitmap, the queue can overflow and `update_queues` may refuse the
ACK; with windows that repeat, a fragment is queued twice, and with windows that
descend, out of order.
`TypeCorrect` and `RequestComesLast` are proved without them, of any message.

The transfer, in `SCHCTransfer_proofs`, for every packet, Rule, number of requests
and of faults. The receiver is truthful by `AcksAreTruthful`; nothing is assumed
about losses, delays or failing sends.

* `TruthIsNeverContradicted`: `NoContradiction`. `TransferInv` takes the invariants of
  the sender from above (a truthful ACK names windows of the packet in ascending
  order, so that `PacketOnly` and `WellOrdered` hold) and adds that every ACK in reach, in the channel or in
  `buffer`, is `Truthful`: each window that a report of losses names lacks something
  by the sender's own test, which cuts the bitmap of the last window, and a
  complete ACK means that the receiver has everything. Both stay true of an
  answer however late it is read, as the receiver only gains Fragments.
* `TransferImplementsService`: `ImplementsService`, from the same invariant: each
  action of the transfer is a step of `PacketTransfer` or leaves `received` and
  `result` alone, and `SCHC_COMPLETED` is returned on a complete ACK only.
* `AbortsArePaid`: `AbortNeedsFaults`, if not `ZeroRuleId`; see `all_zero_ack` for why.
  `FaultInv` says that `attempts` is at most the number of faults, or one more
  while the request or its answer is still under way (`Counted`). Without
  `AbortIsShort` the sender never reports an abort (`CostInv`).

The ring, in `FIFOQueue_proofs`: `RingImplementsFIFO` (`FIFOQueue` implements
`BoundedFIFO`, by the invariant `QueueTypeCorrect`) and `SlotsAreInUse`, for every
size. The latter needs the arithmetic of a range that wraps around
(`RingRange`).

The messages, in `Messages_proofs`, which has no state: facts about the operators
of `Fragment`, `FRProcedure` and `CompoundACK` for all values of their arguments.

* Fragments: the arithmetic of the three formats (`FragmentCount`, `PayloadFits`,
  `Widths`, `Recognised`), so that no field of a Fragment within the windows of its
  Rule is cut.
* Bits: what `\o`, `SubSeq` and `int_to_bin` make of strings of bits (`Joined`, `Cut`,
  `ToBin`), and that a Rule ID gives back its Rule (`RuleReadBack`).
* ACKs: `LossesSent` says where in the 64 bits `generate_ack` puts the header, the
  tuples and the zeros; `TuplesCounted` that the scan of `get_ack_nb_tuples` stops
  where it must, for windows in increasing order of which only the first can be
  window 0; `ReportRead` puts them together. `CompleteRead`, `AbortRead` and
  `LossesRead` tell the kinds apart. Powers of two and the recursive function in
  `bin_to_int` are unfolded for the widths there are, at most 8 bits.

Fragmentation, in `Reassembly_proofs`, for every Rule ID and every packet length:
`EveryFragmentFits`, `EveryFragmentRecognised`, `PacketIsRestored`, `LengthIsExact`,
`RuleIsRecognised`. The invariant says that the array of the receiver holds null or
the Fragment of that position; `BeforeNull` that reassembly stops at the first null.

Compound ACKs, in `AckExchange_proofs`: `KindsAreToldApart`, `TuplesAreReadBack`,
`TuplesAreRead`, `AckGivesRule`, for every window and every pattern of losses, where
the run has 3 or 5 bitmaps per window. Assumed are `HeadersAreRuleIds` and
`BitmapsFillWindows`: a bitmap is blank or fills its window, as those of
`session_check_bitmaps` do (`CheckedReportable`, proved of the session). The
invariant `Written` only remembers which operator wrote the message.

The session, in `SessionReceive_proofs`, for every Rule `init_rule` can make (the
hypothesis `TheRule \in Rules`), any packets it accepts, any bound of the clock,
both kinds of restart, and whether or not the caller does what the draft leaves
to it:

* `BitmapAgrees`, `StoredIsKept`, `RepeatedAll1IsAnswered` (`PendingAckAnswered`), by
  `IInv`: bitmap and array agree but for one position (`Extra`), that of an All-1,
  and the Fragment remembered as the last one is in the bitmap, or it was retained
  and has not come again, when there is no such position. Each function of the session gets a lemma that says what it
  leaves alone; `UplinkSlots` that the header of a Fragment names a slot of the
  array, from `Recognised`.
* `AbortIsDelivered` and `SessionTypeCorrect`, by `NInv`: the session's ACK is the
  generated Receiver-Abort together with `aborted` and `receiver_abort`, or it reads
  as none (`Noted`). The bits of the message are needed for both halves. The
  windows requested stay in range for any bits of an ACK (`TupleWindows`), those
  read past the reports of `generate_ack` included. The last slot of the array
  and the ends of the two strings are never used, so that what terminates them stays.
* `LossesAreReported` and `SingleByteReportsAll` (`LossesReported`), by `LInv`: every
  stored Fragment came from the sender, and an ACK generated for a Fragment is
  the report of the present bitmap. `NoFullWindow` shows that with one packet, and
  no bit without a Fragment in the last window (`Founded`), a full window is never
  taken for a lossy one; `NotRefusedLosses` that an ACK is
  generated only with C=0, the other half of `session_complete`.

The sockets, in `SigfoxSocket_proofs`, for any set of clients, timeouts and number
of messages: `AnswersAreReadOnce` (`ReadOnce`), by `SocketInv`: what a client has read,
buffered and in its socket is one chain of increasing numbers (`Ordered`), all of
them sent, so that no answer is in two places.

Model-checked only: the liveness properties `EventuallyReturns`, `TransferEnds`
and `EventuallyCompleted`, which are beyond the prover. Every safety
invariant and action property of the passing runs is a theorem; where it needs a
hypothesis, the paragraph above says why it cannot be dropped.

## 6. Not modelled

* The packing of bits into bytes and back (`src/utils/casting.c`), where buffers
  without a terminator are read as strings: undefined behaviour below the level
  of these models, which take a conversion to do what its callers rely on.
* The string helpers (`strrev`, `zfill`, `repeat_char`), the test helper
  `generate_packet`, logging and printing.
* The release of memory, and the failure of `sender_construct`, `socket()` and
  `setsockopt()`: the process does not go on from them.
* The length of timeouts in the sender: any `recvfrom` may expire. Durations of
  `schc.h` other than the inactivity timeout are not represented.
* `SCHCReceiver`: the file holds no code.
* `SCHCSession` as the receiver of a transfer, for the reason given above.
* `is_ack_receiver_abort` under a Rule that leaves less than 8 bits of padding: no
  Rule does.

## 7. Plan

1. When `session_schc_recv` is written: replace the draft in `SessionReceive` by
   it, move `Remember`, `Request` and `StartNewSession` into it, and compose it
   with the sender in the place of the truthful receiver.
2. Proofs: what a measure could say of liveness without ENABLED (the step that
   decreases it, as an action property); `EventuallyReturns` by the number of
   pointers and requests left.
