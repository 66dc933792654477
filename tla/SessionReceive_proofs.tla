------------------------ MODULE SessionReceive_proofs ------------------------
(***************************************************************************)
(* The session, for every Rule of the program, any packets and any order of *)
(* arrival: the bitmap and the array of Fragments agree (IInv), the ACK it  *)
(* holds is an abort exactly when it gave up (NInv), and what a sender      *)
(* reads from a report of losses is what the array lacks (LInv).            *)
(***************************************************************************)
EXTENDS SessionReceive, Messages_proofs

\* s is a record with the fields of SCHCSession and State.
IsSession(s) ==
    /\ s = [rule |-> s.rule, ack |-> s.ack, state |-> s.state,
            fragments |-> s.fragments]
    /\ s.state = [last_fragment |-> s.state.last_fragment,
                  last_ack |-> s.state.last_ack,
                  receiver_abort |-> s.state.receiver_abort,
                  aborted |-> s.state.aborted, timestamp |-> s.state.timestamp,
                  bitmap |-> s.state.bitmap,
                  requested_frg |-> s.state.requested_frg]
    /\ s.rule = TheRule
    /\ s.fragments = [i \in slots(TheRule) |-> s.fragments[i]]

\* t differs from s in neither what is stored nor what is remembered.
SameStore(s, t) ==
    /\ IsSession(t)
    /\ t.fragments = s.fragments /\ t.state.bitmap = s.state.bitmap
    /\ t.state.last_fragment = s.state.last_fragment

nb(f) == get_frg_nb(TheRule, f)

\* The positions that hold a Fragment, and those that are registered without one.
Held(s)  == {i \in slots(TheRule) : ~is_frg_null(s.fragments[i])}
Extra(s) == s.state.bitmap \ Held(s)

LastNumbers == {LastNb(p) : p \in Packets}

Agrees(s) ==
    /\ s.state.bitmap \subseteq slots(TheRule) \cap Places
    /\ Held(s) \subseteq s.state.bitmap
    /\ \A i \in Held(s) : nb(s.fragments[i]) = i
    /\ Extra(s) \subseteq LastNumbers
    /\ \A i, j \in Extra(s) : i = j

\* The Fragment remembered is registered, unless it is one that was retained: then
\* it has not come again, and every Fragment registered since is held.
Remembered(s) ==
    \/ is_frg_null(s.state.last_fragment)
    \/ nb(s.state.last_fragment) \in s.state.bitmap
    \/ Extra(s) = {}

Good(s) == IsSession(s) /\ Agrees(s) /\ Remembered(s)

LEMMA SameGood ==
    ASSUME NEW s, NEW t, Good(s), SameStore(s, t) PROVE Good(t)
BY DEF Good, SameStore, Agrees, Remembered, Held, Extra

-----------------------------------------------------------------------------
(* What each function does to the store.                                    *)

LEMMA NewSession ==
    /\ Good(session_construct(TheRule))
    /\ session_construct(TheRule).fragments = [i \in slots(TheRule) |-> NULL_FRG]
BY DEF Good, IsSession, Agrees, Remembered, Held, Extra, session_construct,
       state_construct, is_frg_null

\* A restart empties the store, whether it retains the last Fragment or not.
LEMMA Restarted ==
    ASSUME NEW s, IsSession(s), NEW retain \in BOOLEAN,
           NEW t, t = start_new_session(s, retain)
    PROVE  Good(t) /\ t.fragments = [i \in slots(TheRule) |-> NULL_FRG]
<1> DEFINE new == session_construct(TheRule)
<1>1. Good(new) /\ new.fragments = [i \in slots(TheRule) |-> NULL_FRG]
  BY NewSession
<1>2. new.state.bitmap = {}
  BY DEF session_construct, state_construct
<1>3. CASE ~retain
  BY <1>1, <1>3 DEF start_new_session, IsSession
<1>4. CASE retain
  <2>1. t = [new EXCEPT !.state.last_fragment = s.state.last_fragment,
                        !.state.last_ack = s.state.last_ack]
    BY <1>4 DEF start_new_session, IsSession
  <2> HIDE DEF new
  <2>2. /\ IsSession(t) /\ t.fragments = new.fragments /\ t.state.bitmap = {}
    BY <1>1, <1>2, <2>1 DEF Good, IsSession
  <2>3. Agrees(t) /\ Remembered(t)
    BY <1>1, <1>2, <2>2 DEF Good, Agrees, Remembered, Held, Extra
  <2> QED  BY <1>1, <2>2, <2>3 DEF Good
<1> QED  BY <1>3, <1>4

LEMMA Timestamped ==
    ASSUME NEW s, NEW t, IsSession(s)
    PROVE  SameStore(s, session_update_timestamp(s, t))
BY DEF SameStore, IsSession, session_update_timestamp

LEMMA SenderAborted ==
    ASSUME NEW s, IsSession(s) PROVE SameStore(s, session_sender_abort(s))
<1> DEFINE t == session_sender_abort(s)
<1>1. t = [s EXCEPT !.state.timestamp = -1, !.state.aborted = TRUE]
  BY DEF session_sender_abort
<1> HIDE DEF t
<1>2. /\ t = [rule |-> s.rule, ack |-> s.ack, state |-> t.state,
              fragments |-> s.fragments]
      /\ t.state = [[s.state EXCEPT !.timestamp = -1] EXCEPT !.aborted = TRUE]
  BY <1>1 DEF IsSession
<1>3. t.state = [last_fragment |-> s.state.last_fragment,
                 last_ack |-> s.state.last_ack, receiver_abort |-> s.state.receiver_abort,
                 aborted |-> TRUE, timestamp |-> -1, bitmap |-> s.state.bitmap,
                 requested_frg |-> s.state.requested_frg]
  BY <1>2 DEF IsSession
<1>5. IsSession(t)
  <2>1. /\ t = [rule |-> t.rule, ack |-> t.ack, state |-> t.state,
                fragments |-> t.fragments]
        /\ t.rule = s.rule /\ t.fragments = s.fragments
    BY <1>2
  <2>2. t.state = [last_fragment |-> t.state.last_fragment,
                   last_ack |-> t.state.last_ack,
                   receiver_abort |-> t.state.receiver_abort,
                   aborted |-> t.state.aborted, timestamp |-> t.state.timestamp,
                   bitmap |-> t.state.bitmap,
                   requested_frg |-> t.state.requested_frg]
    BY <1>3
  <2>3. /\ t.rule = TheRule
        /\ t.fragments = [i \in slots(TheRule) |-> t.fragments[i]]
    BY <2>1 DEF IsSession
  <2> QED  BY <2>1, <2>2, <2>3 DEF IsSession
<1>4. SameStore(s, t)
  BY <1>2, <1>3, <1>5 DEF SameStore
<1> QED  BY <1>4 DEF t

LEMMA ReceiverAborted ==
    ASSUME NEW s, IsSession(s) PROVE SameStore(s, session_receiver_abort(s))
<1> DEFINE ra == generate_receiver_abort(s.rule)
           t  == session_receiver_abort(s)
<1> HIDE DEF ra
<1>1. t = [s EXCEPT !.state.timestamp = -1, !.state.aborted = TRUE,
                    !.ack = ra, !.state.receiver_abort = ra]
  BY DEF session_receiver_abort, ra
<1> HIDE DEF t
<1>2. /\ t = [rule |-> s.rule, ack |-> ra, state |-> t.state,
              fragments |-> s.fragments]
      /\ t.state = [[[s.state EXCEPT !.timestamp = -1] EXCEPT !.aborted = TRUE]
                       EXCEPT !.receiver_abort = ra]
  BY <1>1 DEF IsSession
<1>3. t.state = [last_fragment |-> s.state.last_fragment,
                 last_ack |-> s.state.last_ack, receiver_abort |-> ra,
                 aborted |-> TRUE, timestamp |-> -1, bitmap |-> s.state.bitmap,
                 requested_frg |-> s.state.requested_frg]
  BY <1>2 DEF IsSession
<1>5. IsSession(t)
  <2>1. /\ t = [rule |-> t.rule, ack |-> t.ack, state |-> t.state,
                fragments |-> t.fragments]
        /\ t.rule = s.rule /\ t.fragments = s.fragments
    BY <1>2
  <2>2. t.state = [last_fragment |-> t.state.last_fragment,
                   last_ack |-> t.state.last_ack,
                   receiver_abort |-> t.state.receiver_abort,
                   aborted |-> t.state.aborted, timestamp |-> t.state.timestamp,
                   bitmap |-> t.state.bitmap,
                   requested_frg |-> t.state.requested_frg]
    BY <1>3
  <2>3. /\ t.rule = TheRule
        /\ t.fragments = [i \in slots(TheRule) |-> t.fragments[i]]
    BY <2>1 DEF IsSession
  <2> QED  BY <2>1, <2>2, <2>3 DEF IsSession
<1>4. SameStore(s, t)
  BY <1>2, <1>3, <1>5 DEF SameStore
<1> QED  BY <1>4 DEF t

LEMMA AckGeneratedSame ==
    ASSUME NEW s, NEW f, IsSession(s)
    PROVE  SameStore(s, session_generate_ack(s, f))
BY DEF SameStore, IsSession, session_generate_ack

LEMMA AckReplaced ==
    ASSUME NEW s, NEW a, IsSession(s) PROVE SameStore(s, [s EXCEPT !.ack = a])
BY DEF SameStore, IsSession

LEMMA RequestedSame ==
    ASSUME NEW s, NEW a, IsSession(s)
    PROVE  SameStore(s, session_update_requested(s, a))
BY DEF SameStore, IsSession, session_update_requested

\* Forgetting the last Fragment leaves the store alone.
LEMMA Forgotten ==
    ASSUME NEW s, NEW f, Good(s)
    PROVE  /\ Good(forget_last(s, f))
           /\ forget_last(s, f).fragments = s.fragments
           /\ forget_last(s, f).state.bitmap = s.state.bitmap
<1> DEFINE t == forget_last(s, f)
<1>1. t \in {s, [s EXCEPT !.state.last_fragment = NULL_FRG,
                         !.state.last_ack = NULL_ACK]}
  BY DEF forget_last
<1> HIDE DEF t
<1>2. /\ IsSession(t)
      /\ t.fragments = s.fragments /\ t.state.bitmap = s.state.bitmap
      /\ t.state.last_fragment \in {s.state.last_fragment, NULL_FRG}
  BY <1>1 DEF Good, IsSession
<1>3. is_frg_null(NULL_FRG)
  BY DEF is_frg_null
<1>4. Good(t)
  BY <1>2, <1>3 DEF Good, Agrees, Remembered, Held, Extra
<1> QED  BY <1>2, <1>4 DEF t

\* A Fragment that can be stored, the last of its packet if it is an All-1.
Storable(f) ==
    /\ nb(f) \in slots(TheRule) \cap Places /\ ~is_frg_null(f)
    /\ is_frg_all_1(TheRule, f) => nb(f) \in LastNumbers

\* Storing and registering a Fragment, in one of the slots, keeps them agreed
\* and leaves every other slot, and a slot that was taken, as it was.
LEMMA StoredAndRegistered ==
    ASSUME NEW s, NEW f, Good(s), Storable(f)
    PROVE  LET t == session_update_bitmap(session_store_frg(s, f), f) IN
           /\ Good(t)
           /\ nb(f) \in t.state.bitmap
           /\ \A i \in slots(TheRule) :
                  t.fragments[i] # s.fragments[i] =>
                      is_frg_null(s.fragments[i]) /\ t.fragments[i] = f
<1> DEFINE u == session_store_frg(s, f)
           t == session_update_bitmap(u, f)
<1>1. CASE nb(f) \in s.state.bitmap
  <2>1. u = s
    BY <1>1 DEF session_store_frg, session_already_received, nb, Good, IsSession
  <2>2. SameStore(s, t)
    <3>1. t = [s EXCEPT !.state.bitmap = s.state.bitmap]
      BY <1>1, <2>1 DEF session_update_bitmap, Good, IsSession, nb
    <3> HIDE DEF t
    <3> QED  BY <3>1 DEF SameStore, Good, IsSession
  <2>3. t.fragments = s.fragments /\ t.state.bitmap = s.state.bitmap
    BY <2>2 DEF SameStore
  <2> QED  BY <1>1, <2>2, <2>3, SameGood
\* The All-1 that was retained: it is not stored, but it is registered.
<1>2. CASE nb(f) \notin s.state.bitmap /\ session_already_received(s, f)
  <2>1. /\ is_frg_all_1(TheRule, f) /\ s.state.last_fragment = f
        /\ u = s
    BY <1>2 DEF session_already_received, session_store_frg, nb, Good, IsSession
  <2>2. Extra(s) = {}
    BY <1>2, <2>1 DEF Good, Remembered, Storable
  <2>3. /\ IsSession(t)
        /\ t.fragments = s.fragments
        /\ t.state.bitmap = s.state.bitmap \cup {nb(f)}
        /\ t.state.last_fragment = f
    BY <2>1 DEF session_update_bitmap, Good, IsSession, nb
  <2> HIDE DEF t, u
  <2>4. Held(t) = Held(s) /\ Extra(t) \subseteq {nb(f)}
    BY <2>2, <2>3 DEF Held, Extra
  <2>5. Agrees(t)
    BY <2>1, <2>3, <2>4 DEF Good, Agrees, Held, Storable
  <2>6. Good(t)
    BY <2>3, <2>5 DEF Good, Remembered
  <2> QED  BY <2>3, <2>6 DEF t, u
<1>3. CASE ~session_already_received(s, f)
  <2>1. nb(f) \notin s.state.bitmap
    BY <1>3 DEF session_already_received, nb, Good, IsSession
  <2>2. u = [s EXCEPT !.fragments[nb(f)] = f]
    BY <1>3 DEF session_store_frg, nb, Good, IsSession
  <2>3. /\ IsSession(u)
        /\ u.fragments = [s.fragments EXCEPT ![nb(f)] = f]
        /\ u.state = s.state
    BY <2>2 DEF Good, IsSession
  <2>4. /\ IsSession(t)
        /\ t.fragments = u.fragments
        /\ t.state.bitmap = s.state.bitmap \cup {nb(f)}
        /\ t.state.last_fragment = s.state.last_fragment
    BY <2>3 DEF session_update_bitmap, IsSession, nb
  <2> HIDE DEF t, u
  <2>5. /\ t.fragments[nb(f)] = f
        /\ \A i \in slots(TheRule) \ {nb(f)} : t.fragments[i] = s.fragments[i]
    BY <2>3, <2>4 DEF Good, IsSession, Storable
  <2>6. is_frg_null(s.fragments[nb(f)])
    BY <2>1 DEF Good, Agrees, Held, Storable
  <2>7. Held(t) = Held(s) \cup {nb(f)} /\ Extra(t) = Extra(s)
    <3>1. Held(t) = Held(s) \cup {nb(f)}
      BY <2>5 DEF Held, Storable
    <3>2. Extra(t) = Extra(s)
      BY <2>1, <2>4, <3>1 DEF Extra
    <3> QED  BY <3>1, <3>2
  <2>8. Agrees(t)
    BY <2>4, <2>5, <2>7 DEF Good, Agrees, Held, Storable
  <2>9. Good(t)
    BY <2>4, <2>7, <2>8 DEF Good, Remembered
  <2> QED  BY <2>4, <2>5, <2>6, <2>9 DEF t, u
<1> QED  BY <1>1, <1>2, <1>3

\* The caller notes a registered Fragment.
LEMMA RememberedGood ==
    ASSUME NEW s, NEW f, NEW a, Good(s), nb(f) \in s.state.bitmap, NEW t,
           t = [s EXCEPT !.state.last_fragment = f, !.state.last_ack = a]
    PROVE  Good(t) /\ t.fragments = s.fragments /\ t.state.bitmap = s.state.bitmap
<1>1. t = [s EXCEPT !.state.last_fragment = f, !.state.last_ack = a]
  OBVIOUS
<1>2. /\ t = [rule |-> s.rule, ack |-> s.ack, state |-> t.state,
              fragments |-> s.fragments]
      /\ t.state = [[s.state EXCEPT !.last_fragment = f] EXCEPT !.last_ack = a]
  BY <1>1 DEF Good, IsSession
<1>3. t.state = [last_fragment |-> f, last_ack |-> a,
                 receiver_abort |-> s.state.receiver_abort,
                 aborted |-> s.state.aborted, timestamp |-> s.state.timestamp,
                 bitmap |-> s.state.bitmap,
                 requested_frg |-> s.state.requested_frg]
  BY <1>2 DEF Good, IsSession
<1>4. IsSession(t)
  <2>1. /\ t = [rule |-> t.rule, ack |-> t.ack, state |-> t.state,
                fragments |-> t.fragments]
        /\ t.rule = s.rule /\ t.fragments = s.fragments
    BY <1>2
  <2>2. t.state = [last_fragment |-> t.state.last_fragment,
                   last_ack |-> t.state.last_ack,
                   receiver_abort |-> t.state.receiver_abort,
                   aborted |-> t.state.aborted, timestamp |-> t.state.timestamp,
                   bitmap |-> t.state.bitmap,
                   requested_frg |-> t.state.requested_frg]
    BY <1>3
  <2>3. /\ t.rule = TheRule
        /\ t.fragments = [i \in slots(TheRule) |-> t.fragments[i]]
    BY <2>1 DEF Good, IsSession
  <2> QED  BY <2>1, <2>2, <2>3 DEF IsSession
<1>5. /\ t.fragments = s.fragments /\ t.state.bitmap = s.state.bitmap
      /\ t.state.last_fragment = f
  BY <1>2, <1>3
<1>6. Good(t)
  BY <1>4, <1>5 DEF Good, Agrees, Remembered, Held, Extra
<1> QED  BY <1>5, <1>6

-----------------------------------------------------------------------------
(* The inductive invariant.                                                 *)

IInv ==
    /\ TheRule \in Rules
    /\ Good(session)
    /\ outcome \in {"acked", "refused", "stored"} =>
           nb(frg) \in session.state.bitmap

LEMMA UplinkSlots ==
    ASSUME TheRule \in Rules, NEW f \in Uplinks PROVE Storable(f)
<1>0. PICK p \in Packets : f \in {Frag(p, i) : i \in 0..LastNb(p)}
  BY DEF Uplinks
<1>1. PICK i \in 0..LastNb(p) : f = Frag(p, i)
  BY <1>0
<1> DEFINE size == PacketSizes[p]
<1>2. size \in Nat /\ Accepted(TheRule, size)
  BY SessionAssumption, NotRefused
<1>3. i \in 0..LastOf(TheRule, size) /\ f = fragment(TheRule, p, size)[i]
  BY <1>1 DEF LastNb, LastOf, Frag, FragmentsOf
<1>4. Fields(TheRule, size, i, f)
  BY <1>2, <1>3, GeneratedFields
<1>5. nb(f) = i /\ (is_frg_all_1(TheRule, f) => i = LastOf(TheRule, size))
  BY <1>2, <1>3, <1>4, Recognised DEF nb
<1>6. get_nb_fragments(TheRule, size) \in 1..TheRule.max_fragment_nb
  BY <1>2, FragmentCount
<1>7. TheRule.max_fragment_nb \in Nat
  BY Formats, Powers DEF Single, Op1, Op2, Sized
<1>8. nb(f) \in slots(TheRule) \cap Places
  BY <1>3, <1>5, <1>6, <1>7 DEF LastOf, slots, Places
<1>9. ~is_frg_null(f)
  BY <1>4 DEF Fields, is_frg_null, NULL_FRG, UPLINK_MTU_BYTES
<1>10. is_frg_all_1(TheRule, f) => nb(f) \in LastNumbers
  BY <1>5 DEF LastNumbers, LastNb, LastOf
<1> QED  BY <1>8, <1>9, <1>10 DEF Storable

\* What a step may do to the store: add frg' to a free slot, or start again.
StoreStep ==
    \A i \in slots(TheRule) :
        session'.fragments[i] # session.fragments[i] =>
            \/ is_frg_null(session.fragments[i])
            \/ \A j \in slots(TheRule) : session'.fragments[j] \in {NULL_FRG, frg'}

LEMMA StoredFacts ==
    ASSUME Good(session), NEW f, Storable(f)
    PROVE  /\ Good(Stored(f))
           /\ nb(f) \in Stored(f).state.bitmap
           /\ \A i \in slots(TheRule) :
                  Stored(f).fragments[i] # session.fragments[i] =>
                      /\ Stored(f).fragments[i] \in {NULL_FRG, f}
                      /\ \/ is_frg_null(session.fragments[i])
                         \/ \A j \in slots(TheRule) :
                                Stored(f).fragments[j] \in {NULL_FRG, f}
<1> DEFINE timed == session_update_timestamp(session, clock)
<1>1. Good(timed) /\ timed.fragments = session.fragments /\ timed.rule = TheRule
  BY Timestamped, SameGood DEF Good, SameStore, IsSession
<1> HIDE DEF timed
<1>2. CASE session_expects_fragment(timed, f)
  <2>1. Stored(f) = session_update_bitmap(session_store_frg(timed, f), f)
    BY <1>2 DEF Stored, timed
  <2> QED  BY <1>1, <2>1, StoredAndRegistered
<1>3. CASE ~session_expects_fragment(timed, f)
  <2> DEFINE new == session_construct(TheRule)
  <2>1. Stored(f) = session_update_bitmap(session_store_frg(new, f), f)
    BY <1>1, <1>3 DEF Stored, start_new_session, timed
  <2>2. Good(new) /\ new.fragments = [i \in slots(TheRule) |-> NULL_FRG]
    BY NewSession
  <2> HIDE DEF new
  <2>3. /\ Good(Stored(f)) /\ nb(f) \in Stored(f).state.bitmap
        /\ \A i \in slots(TheRule) : Stored(f).fragments[i] # new.fragments[i] =>
               Stored(f).fragments[i] = f
    BY <2>1, <2>2, StoredAndRegistered
  <2>4. \A j \in slots(TheRule) : Stored(f).fragments[j] \in {NULL_FRG, f}
    BY <2>2, <2>3
  <2> QED  BY <2>3, <2>4
<1> QED  BY <1>2, <1>3

LEMMA RecvFragmentStep ==
    ASSUME IInv, NEW f \in Uplinks \cup SenderAborts, RecvFragment(f), frg' = f
    PROVE  IInv' /\ StoreStep
<1>1. f \in Uplinks
  BY DEF RecvFragment, SenderAborts
<1>2. Storable(f)
  BY <1>1, UplinkSlots DEF IInv
<1> DEFINE stored == Stored(f)
           forgotten == forget_last(stored, f)
<1>3. Good(stored) /\ nb(f) \in stored.state.bitmap
  BY <1>2, StoredFacts DEF IInv
<1>4. /\ Good(forgotten) /\ forgotten.fragments = stored.fragments
      /\ forgotten.state.bitmap = stored.state.bitmap
  BY <1>3, Forgotten
<1>5. \/ session' = [stored EXCEPT !.ack = stored.state.last_ack]
      \/ session' = forgotten
      \/ session' = session_generate_ack(forgotten, f)
  BY DEF RecvFragment
<1> HIDE DEF stored, forgotten
<1>6. /\ Good(session') /\ session'.fragments = stored.fragments
      /\ session'.state.bitmap = stored.state.bitmap
  <2>1. CASE session' = [stored EXCEPT !.ack = stored.state.last_ack]
    <3>1. SameStore(stored, session')
      BY <1>3, <2>1, AckReplaced DEF Good
    <3> QED  BY <1>3, <3>1, SameGood DEF SameStore
  <2>2. CASE session' = forgotten
    BY <1>4, <2>2
  <2>3. CASE session' = session_generate_ack(forgotten, f)
    <3>1. SameStore(forgotten, session')
      BY <1>4, <2>3, AckGeneratedSame DEF Good
    <3> QED  BY <1>4, <3>1, SameGood DEF SameStore
  <2> QED  BY <1>5, <2>1, <2>2, <2>3
<1>7. IInv'
  BY <1>3, <1>6 DEF IInv, Good, Agrees, Remembered, Held, Extra,
                 IsSession, nb
<1>8. StoreStep
  BY <1>2, <1>6, StoredFacts DEF StoreStep, IInv, stored
<1> QED  BY <1>7, <1>8

LEMMA NextStep == IInv /\ [Next]_vars => IInv' /\ StoreStep
<1> SUFFICES ASSUME IInv, [Next]_vars PROVE IInv' /\ StoreStep
  OBVIOUS
<1> DEFINE none == outcome' \notin {"acked", "refused", "stored"}
<1>1. ASSUME SameStore(session, session'), none PROVE IInv' /\ StoreStep
  <2>1. Good(session')
    BY <1>1, SameGood DEF IInv
  <2>2. IInv'
    BY <1>1, <2>1 DEF IInv, Good, Agrees, Remembered, Held, Extra,
                 IsSession, nb
  <2>3. StoreStep
    BY <1>1 DEF SameStore, StoreStep
  <2> QED  BY <2>2, <2>3
<1>2. SameStore(session, session)
  BY DEF IInv, Good, SameStore
<1>3. ASSUME NEW f \in Uplinks \cup SenderAborts, Recv(f) PROVE IInv' /\ StoreStep
  <2>1. CASE RecvAborted(f)
    BY <1>1, <1>2, <2>1 DEF RecvAborted
  <2>2. CASE RecvExpired(f)
    BY <1>1, <2>2, ReceiverAborted DEF RecvExpired, IInv, Good
  <2>3. CASE RecvSenderAbort(f)
    <3>1. SameStore(session, session_update_timestamp(session, clock))
      BY Timestamped DEF IInv, Good
    <3>2. SameStore(session_update_timestamp(session, clock), session')
      BY <2>3, <3>1, SenderAborted DEF RecvSenderAbort, SameStore
    <3>3. SameStore(session, session')
      BY <3>1, <3>2 DEF SameStore
    <3> QED  BY <1>1, <2>3, <3>3 DEF RecvSenderAbort
  <2>4. CASE RecvFragment(f)
    BY <1>3, <2>4, RecvFragmentStep DEF Recv
  <2> QED  BY <1>3, <2>1, <2>2, <2>3, <2>4 DEF Recv
<1>4. CASE Tick
  BY <1>1, <1>2, <1>4 DEF Tick
<1>5. CASE Remember
  <2> DEFINE a == CASE outcome = "stored" -> session.state.last_ack
                    [] \E p \in Packets : WholePacket(p)
                                          /\ frg = Frag(p, LastNb(p))
                           -> complete_ack(frg)
                    [] OTHER -> session.ack
  <2>1. session' = [session EXCEPT !.state.last_fragment = frg,
                                   !.state.last_ack = a]
    BY <1>5 DEF Remember
  <2> HIDE DEF a
  <2>2. Good(session) /\ nb(frg) \in session.state.bitmap
    BY <1>5 DEF Remember, IInv
  <2>3. Good(session') /\ session'.fragments = session.fragments
    BY <2>1, <2>2, RememberedGood
  <2>4. IInv'
    BY <1>5, <2>3 DEF Remember, IInv, Good, Agrees, Remembered, Held, Extra,
                 IsSession, nb
  <2>5. StoreStep
    BY <2>3 DEF StoreStep
  <2> QED  BY <2>4, <2>5
<1>6. CASE Request
  BY <1>1, <1>6, RequestedSame DEF Request, IInv, Good
<1>7. ASSUME NEW retain \in BOOLEAN, StartNewSession(retain)
      PROVE  IInv' /\ StoreStep
  <2>1. session' = start_new_session(session, retain)
    BY <1>7 DEF StartNewSession
  <2>2. /\ Good(session')
        /\ session'.fragments = [i \in slots(TheRule) |-> NULL_FRG]
    BY <2>1, Restarted DEF IInv, Good
  <2>3. IInv'
    BY <1>7, <2>2 DEF StartNewSession, IInv, Good, Agrees, Remembered, Held, Extra,
                      IsSession, nb
  <2>4. StoreStep
    BY <2>2 DEF StoreStep
  <2> QED  BY <2>3, <2>4
<1>8. CASE UNCHANGED vars
  BY <1>8 DEF vars, IInv, StoreStep, Good, Agrees, Remembered, Held, Extra,
                 IsSession, nb
<1> QED  BY <1>3, <1>4, <1>5, <1>6, <1>7, <1>8 DEF Next

LEMMA Invariance == Spec /\ TheRule \in Rules => []IInv
<1>1. Init /\ TheRule \in Rules => IInv
  BY NewSession DEF Init, IInv
<1> QED  BY <1>1, NextStep, PTL DEF Spec

\* Whatever arrives in whatever order, with timeouts, aborts and restarts of both
\* kinds in between, the bitmap the ACKs are made from says what the array holds,
\* but for the one All-1 that a retaining restart makes it count twice.
THEOREM BitmapAgrees == Spec /\ TheRule \in Rules => []BitmapMatchesStore
<1>1. IInv => BitmapMatchesStore
  BY DEF IInv, Good, Agrees, Held, Extra, LastNumbers, BitmapMatchesStore,
         StoredSlots, Unfounded, nb
<1> QED  BY Invariance, <1>1, PTL

\* No Fragment takes the place of another while the session lasts.
THEOREM StoredIsKept == Spec /\ TheRule \in Rules => KeptUntilRestart
<1>1. IInv /\ [Next]_vars =>
          [\A i \in slots(TheRule) :
              session'.fragments[i] # session.fragments[i] =>
                  \/ is_frg_null(session.fragments[i])
                  \/ \A j \in slots(TheRule) :
                        session'.fragments[j] \in {NULL_FRG, frg'}]_vars
  BY NextStep DEF StoreStep
<1> QED  BY Invariance, <1>1, PTL DEF KeptUntilRestart, Spec
-----------------------------------------------------------------------------
(* The ACKs of a session.                                                   *)

IsAck(a) == BitString(a.message, 64) /\ a.byte_size \in {-1, 8}

\* An ACK that ends no session.
Harmless(a) == IsAck(a) /\ ~is_ack_receiver_abort(TheRule, a)

\* The Receiver-Abort is generated once, with the abort, and stays.
AbortNoted(s) ==
    \/ s.state.receiver_abort = NULL_ACK /\ Harmless(s.ack)
    \/ /\ s.state.aborted
       /\ s.ack = generate_receiver_abort(TheRule)
       /\ s.state.receiver_abort = generate_receiver_abort(TheRule)

Noted(s) ==
    /\ AbortNoted(s)
    /\ Harmless(s.state.last_ack)
    /\ s.state.timestamp \in -1..MaxTime
    /\ s.state.requested_frg \subseteq 0..TheRule.max_fragment_nb - 1

Active(s) == Noted(s) /\ ~s.state.aborted

\* s and t carry the same ACKs.
SameAcks(s, t) ==
    /\ t.ack = s.ack /\ t.state.last_ack = s.state.last_ack
    /\ t.state.receiver_abort = s.state.receiver_abort

\* t differs from s only in what is stored.
SameNotes(s, t) ==
    /\ SameAcks(s, t) /\ t.state.aborted = s.state.aborted
    /\ t.state.timestamp = s.state.timestamp
    /\ t.state.requested_frg = s.state.requested_frg

LEMMA NotesKept ==
    ASSUME NEW s, NEW t, SameNotes(s, t), Active(s) PROVE Active(t)
BY DEF SameNotes, SameAcks, Active, Noted, AbortNoted

LEMMA BlankAck == Harmless(NULL_ACK)
<1>1. NULL_ACK.message = Zeros(64) /\ NULL_ACK.byte_size = -1
  BY DEF NULL_ACK, DOWNLINK_MTU_BITS
<1>2. BitString(Zeros(64), 64)
  BY Constants
<1>3. ~is_ack_receiver_abort(TheRule, NULL_ACK)
  BY Zenon DEF is_ack_receiver_abort, is_ack_null
<1> QED  BY <1>1, <1>2, <1>3 DEF Harmless, IsAck

LEMMA NewNotes ==
    ASSUME TheRule \in Rules PROVE Active(session_construct(TheRule))
<1> DEFINE t == session_construct(TheRule)
<1>1. /\ t.ack = NULL_ACK /\ t.state.last_ack = NULL_ACK
      /\ t.state.receiver_abort = NULL_ACK /\ t.state.aborted = FALSE
      /\ t.state.timestamp = -1 /\ t.state.requested_frg = {}
  BY DEF session_construct, state_construct
<1>2. -1 \in -1..MaxTime
  BY SessionAssumption
<1> HIDE DEF t
<1>3. Active(t)
  BY <1>1, <1>2, BlankAck DEF Active, Noted, AbortNoted
<1> QED  BY <1>3 DEF t

LEMMA RestartedNotes ==
    ASSUME TheRule \in Rules, NEW s, IsSession(s), Harmless(s.state.last_ack),
           NEW retain \in BOOLEAN, NEW t, t = start_new_session(s, retain)
    PROVE  Active(t)
<1>1. CASE ~retain
  BY <1>1, NewNotes DEF start_new_session, IsSession
<1>2. CASE retain
  <2> DEFINE new == session_construct(TheRule)
  <2>1. t = [new EXCEPT !.state.last_fragment = s.state.last_fragment,
                        !.state.last_ack = s.state.last_ack]
    BY <1>2 DEF start_new_session, IsSession
  <2>2. /\ new = [rule |-> new.rule, ack |-> NULL_ACK, state |-> new.state,
                  fragments |-> new.fragments]
        /\ new.state = state_construct
    BY DEF session_construct
  <2> HIDE DEF new
  <2>3. /\ t.ack = NULL_ACK
        /\ t.state = [[state_construct EXCEPT !.last_fragment = s.state.last_fragment]
                          EXCEPT !.last_ack = s.state.last_ack]
    BY <2>1, <2>2
  <2>4. t.state = [last_fragment |-> s.state.last_fragment,
                   last_ack |-> s.state.last_ack, receiver_abort |-> NULL_ACK,
                   aborted |-> FALSE, timestamp |-> -1, bitmap |-> {},
                   requested_frg |-> {}]
    BY <2>3 DEF state_construct
  <2>5. /\ t.state.last_ack = s.state.last_ack
        /\ t.state.receiver_abort = NULL_ACK /\ t.state.aborted = FALSE
        /\ t.state.timestamp = -1 /\ t.state.requested_frg = {}
    BY <2>4
  <2>6. -1 \in -1..MaxTime
    BY SessionAssumption
  <2> QED  BY <2>3, <2>5, <2>6, BlankAck DEF Active, Noted, AbortNoted
<1> QED  BY <1>1, <1>2

LEMMA TimestampNotes ==
    ASSUME NEW s, IsSession(s), NEW time \in 0..MaxTime
    PROVE  LET t == session_update_timestamp(s, time) IN
           /\ SameAcks(s, t) /\ t.state.aborted = s.state.aborted
           /\ t.state.timestamp \in -1..MaxTime
           /\ t.state.requested_frg = s.state.requested_frg
<1> DEFINE t == session_update_timestamp(s, time)
<1>1. /\ SameAcks(s, t) /\ t.state.aborted = s.state.aborted
      /\ t.state.timestamp = time
      /\ t.state.requested_frg = s.state.requested_frg
  BY DEF session_update_timestamp, IsSession, SameAcks
<1>2. time \in -1..MaxTime
  BY SessionAssumption
<1> HIDE DEF t
<1> QED  BY <1>1, <1>2 DEF t

LEMMA StoreNotes ==
    ASSUME NEW s, NEW f, IsSession(s) PROVE SameNotes(s, session_store_frg(s, f))
BY DEF SameNotes, SameAcks, session_store_frg, IsSession

LEMMA BitmapNotes ==
    ASSUME NEW s, NEW f, IsSession(s) PROVE SameNotes(s, session_update_bitmap(s, f))
BY DEF SameNotes, SameAcks, session_update_bitmap, IsSession

LEMMA ForgottenNotes ==
    ASSUME NEW s, NEW f, IsSession(s), Active(s) PROVE Active(forget_last(s, f))
<1> DEFINE t == forget_last(s, f)
<1>1. /\ t.ack = s.ack /\ t.state.receiver_abort = s.state.receiver_abort
      /\ t.state.last_ack \in {s.state.last_ack, NULL_ACK}
      /\ t.state.aborted = s.state.aborted
      /\ t.state.timestamp = s.state.timestamp
      /\ t.state.requested_frg = s.state.requested_frg
  BY DEF forget_last, IsSession
<1> HIDE DEF t
<1>2. Active(t)
  BY <1>1, BlankAck DEF Active, Noted, AbortNoted
<1> QED  BY <1>2 DEF t

LEMMA UplinkWindow ==
    ASSUME TheRule \in Rules, NEW f \in Uplinks
    PROVE  f.w \in 0..TheRule.max_window_nb - 1
<1>0. PICK p \in Packets : f \in {Frag(p, i) : i \in 0..LastNb(p)}
  BY DEF Uplinks
<1>1. PICK i \in 0..LastNb(p) : f = Frag(p, i)
  BY <1>0
<1> DEFINE size == PacketSizes[p]
<1>2. size \in Nat /\ Accepted(TheRule, size)
  BY SessionAssumption, NotRefused
<1>3. i \in 0..LastOf(TheRule, size) /\ f = fragment(TheRule, p, size)[i]
  BY <1>1 DEF LastNb, LastOf, Frag, FragmentsOf
<1>4. f.w = i \div TheRule.window_size
  BY <1>2, <1>3, GeneratedFields DEF Fields
<1>5. get_nb_fragments(TheRule, size) \in 1..TheRule.max_fragment_nb
  BY <1>2, FragmentCount
<1> HIDE DEF size
<1>6. i \in 0..TheRule.max_fragment_nb - 1
  <2>1. TheRule.max_fragment_nb \in Nat
    BY Formats, Powers DEF Single, Op1, Op2, Sized
  <2> QED  BY <1>3, <1>5, <2>1 DEF LastOf
<1>7. \/ TheRule.max_fragment_nb = 28 /\ TheRule.window_size = 7
         /\ TheRule.max_window_nb = 4
      \/ TheRule.max_fragment_nb = 48 /\ TheRule.window_size = 12
         /\ TheRule.max_window_nb = 4
      \/ TheRule.max_fragment_nb = 248 /\ TheRule.window_size = 31
         /\ TheRule.max_window_nb = 8
  BY Formats, Layouts, Powers DEF Single, Op1, Op2, Sized
<1> QED  BY <1>4, <1>6, <1>7

\* Each window of session_check_bitmaps is left blank or is a full one.
LEMMA CheckedReportable ==
    ASSUME TheRule \in Rules, NEW s, s.rule = TheRule, NEW f \in Uplinks
    PROVE  Reportable(TheRule, get_frg_window(f), session_check_bitmaps(s, f))
<1>1. f.w \in 0..TheRule.max_window_nb - 1
  BY UplinkWindow
<1>2. TheRule.max_window_nb \in Nat /\ TheRule.window_size \in Nat
  BY Layouts
<1>3. ASSUME NEW w \in 0..TheRule.max_window_nb - 1
      PROVE  BitString(session_get_bitmap(s, w), TheRule.window_size)
  <2>1. PICK n \in Nat : n = TheRule.window_size
    BY <1>2
  <2> DEFINE has(j) == IF w * n + j - 1 \in s.state.bitmap THEN 1 ELSE 0
             u == [j \in 1..n |-> has(j)]
  <2>2. session_get_bitmap(s, w) = u
    BY <2>1 DEF session_get_bitmap
  <2>3. \A j \in 1..n : has(j) \in Bits
    BY DEF Bits
  <2> HIDE DEF has
  <2>4. u \in Seq(Bits) /\ Len(u) = n
    BY <2>3
  <2> QED  BY <2>1, <2>2, <2>4 DEF BitString
<1>4. ASSUME NEW w \in 0..TheRule.max_window_nb - 1
      PROVE  session_check_bitmaps(s, f)[w] \in {<<>>, session_get_bitmap(s, w)}
  BY DEF session_check_bitmaps
<1> QED  BY <1>1, <1>2, <1>3, <1>4 DEF Reportable, get_frg_window

LEMMA GeneratedHarmless ==
    ASSUME TheRule \in Rules, NEW s, s.rule = TheRule, NEW f \in Uplinks
    PROVE  Harmless(generate_ack(TheRule, get_frg_window(f), c_bit(s, f),
                                 session_check_bitmaps(s, f)))
<1> DEFINE w   == get_frg_window(f)
           bms == session_check_bitmaps(s, f)
<1>1. Reportable(TheRule, w, bms)
  BY CheckedReportable
<1>2. w \in Int
  BY UplinkWindow, Layouts DEF get_frg_window
<1>3. c_bit(s, f) \in {0, 1}
  BY DEF c_bit
<1> HIDE DEF w, bms
<1>4. CASE c_bit(s, f) = 0
  <2>1. PICK a : a = generate_ack(TheRule, w, 0, bms)
    OBVIOUS
  <2>2. BitString(a.message, 64) /\ a.byte_size = 8 /\ get_ack_c(TheRule, a) = << 0 >>
    BY <1>1, <2>1, ReportHeader
  <2>3. Harmless(a)
    BY <2>2, LossesRead DEF Harmless, IsAck
  <2> QED  BY <1>4, <2>1, <2>3 DEF w, bms
<1>5. CASE c_bit(s, f) = 1
  <2>1. PICK a : a = generate_ack(TheRule, w, 1, bms)
    OBVIOUS
  <2>2. Carries(a, Header(TheRule, w, 1), TheRule.ack_header_len)
    BY <1>2, <2>1, CompleteSent
  <2>3. Harmless(a)
    BY <1>2, <2>2, CompleteRead DEF Harmless, IsAck, Carries
  <2> QED  BY <1>5, <2>1, <2>3 DEF w, bms
<1> QED  BY <1>3, <1>4, <1>5

LEMMA CompleteHarmless ==
    ASSUME TheRule \in Rules, NEW f \in Uplinks PROVE Harmless(complete_ack(f))
<1> DEFINE w   == get_frg_window(f)
           bms == [i \in 0..w |-> Ones(TheRule.window_size)]
<1>1. w \in Int
  BY UplinkWindow, Layouts DEF get_frg_window
<1> HIDE DEF w, bms
<1>2. PICK a : a = generate_ack(TheRule, w, 1, bms)
  OBVIOUS
<1>3. Carries(a, Header(TheRule, w, 1), TheRule.ack_header_len)
  BY <1>1, <1>2, CompleteSent
<1>4. Harmless(a)
  BY <1>1, <1>3, CompleteRead DEF Harmless, IsAck, Carries
<1> QED  BY <1>2, <1>4 DEF complete_ack, w, bms
-----------------------------------------------------------------------------
(* The Fragments an ACK requests.                                           *)

\* Wherever the tuples of an ACK end, the sixth place is past the end.
LEMMA SomeEnd ==
    ASSUME NEW r \in Rules, NEW a
    PROVE  \E n \in 1..6 : Ends(r, a, n) /\ \A k \in 1..n - 1 : ~Ends(r, a, k)
<1>1. tuple_at(r, 6) >= DOWNLINK_MTU_BITS - r.tuple_idx
  BY Layouts DEF tuple_at, tuple_size, DOWNLINK_MTU_BITS
<1>2. Ends(r, a, 6)
  BY <1>1 DEF Ends
<1> DEFINE E(k) == Ends(r, a, k)
<1> HIDE DEF E
<1>3. E(6)
  BY <1>2 DEF E
<1>4. \E n \in 1..6 : E(n) /\ \A k \in 1..n - 1 : ~E(k)
  <2>1. CASE E(1)
    BY <2>1
  <2>2. CASE ~E(1) /\ E(2)
    BY <2>2
  <2>3. CASE ~E(1) /\ ~E(2) /\ E(3)
    BY <2>3
  <2>4. CASE ~E(1) /\ ~E(2) /\ ~E(3) /\ E(4)
    BY <2>4
  <2>5. CASE ~E(1) /\ ~E(2) /\ ~E(3) /\ ~E(4) /\ E(5)
    BY <2>5
  <2>6. CASE ~E(1) /\ ~E(2) /\ ~E(3) /\ ~E(4) /\ ~E(5)
    BY <1>3, <2>6
  <2> QED  BY <2>1, <2>2, <2>3, <2>4, <2>5, <2>6
<1> QED  BY <1>4 DEF E

\* The window of each tuple that is read is one of the Rule.
LEMMA TupleWindows ==
    ASSUME NEW r \in Rules, NEW a, IsAck(a),
           NEW n, n = get_ack_nb_tuples(r, a),
           NEW tuples, tuples = get_ack_tuples(r, a, n)
    PROVE  \A k \in DOMAIN tuples : tuples[k].window \in 0..r.max_window_nb - 1
<1>1. PICK q \in 1..6 : Ends(r, a, q) /\ \A k \in 1..q - 1 : ~Ends(r, a, k)
  BY SomeEnd
<1>2. n = q
  BY <1>1, FirstEnd
<1> DEFINE at(k) == IF k = 1 THEN r.rule_id_size ELSE tuple_at(r, k - 1)
<1>3. ASSUME NEW k \in 1..q
      PROVE  at(k) \in Nat /\ at(k) + r.m <= 64
  <2>1. CASE k = 1
    BY <2>1, Layouts
  <2>2. CASE k # 1
    <3>1. k - 1 \in 1..q - 1 /\ k - 1 \in 1..5
      BY <2>2
    <3>2. tuple_at(r, k - 1) < 64 - r.tuple_idx
      BY <1>1, <3>1, Layouts DEF Ends, tuple_at, tuple_size, DOWNLINK_MTU_BITS
    <3> QED  BY <2>2, <3>1, <3>2, Layouts DEF tuple_at, tuple_size
  <2> QED  BY <2>1, <2>2
<1>4. ASSUME NEW k \in 1..q
      PROVE  tuples[k].window = bin_to_int(Field(a, at(k), r.m))
  BY <1>2 DEF get_ack_tuples, get_ack_w, w_idx
<1>5. DOMAIN tuples = 1..q
  BY <1>2 DEF get_ack_tuples
<1> HIDE DEF at
<1>6. ASSUME NEW k \in 1..q
      PROVE  tuples[k].window \in 0..r.max_window_nb - 1
  <2>1. PICK f : f = Field(a, at(k), r.m)
    OBVIOUS
  <2>2. r.m \in Nat
    BY Layouts
  <2>3. BitString(f, r.m)
    BY <1>3, <2>1, <2>2, Cut DEF Field, IsAck, IsCut
  <2>4. CASE r.m = 2
    <3>1. bin_to_int(f) = 2 * f[1] + f[2] /\ f[1] \in {0, 1} /\ f[2] \in {0, 1}
      BY <2>3, <2>4, Value2, BitsAre
    <3> QED  BY <1>4, <2>1, <2>4, <3>1, Layouts
  <2>5. CASE r.m = 3
    <3>1. /\ bin_to_int(f) = 4 * f[1] + 2 * f[2] + f[3]
          /\ f[1] \in {0, 1} /\ f[2] \in {0, 1} /\ f[3] \in {0, 1}
      BY <2>3, <2>5, Value3, BitsAre
    <3> QED  BY <1>4, <2>1, <2>5, <3>1, Layouts
  <2> QED  BY <2>4, <2>5, Layouts
<1> QED  BY <1>5, <1>6

\* The Fragments lost within the window of a tuple.
LostIn(r, t) ==
    {t.window * r.window_size + j - 1 :
        j \in {k \in 1..r.window_size : t.bitmap[k] = 0}}

LEMMA LostPositions ==
    ASSUME NEW r \in Rules, NEW t, t.window \in 0..r.max_window_nb - 1
    PROVE  LostIn(r, t) \subseteq 0..r.max_fragment_nb - 1
<1>1. PICK w : w = t.window /\ w \in 0..r.max_window_nb - 1
  OBVIOUS
<1>2. ASSUME NEW i \in LostIn(r, t)
      PROVE  i \in 0..r.max_fragment_nb - 1
  <2>1. PICK j \in 1..r.window_size : i = w * r.window_size + j - 1
    BY <1>1 DEF LostIn
  <2>2. \/ r.max_fragment_nb = 28 /\ r.window_size = 7 /\ r.max_window_nb = 4
        \/ r.max_fragment_nb = 48 /\ r.window_size = 12 /\ r.max_window_nb = 4
        \/ r.max_fragment_nb = 248 /\ r.window_size = 31 /\ r.max_window_nb = 8
    BY Formats, Layouts, Powers DEF Single, Op1, Op2, Sized
  <2> QED  BY <1>1, <2>1, <2>2
<1> QED  BY <1>2

LEMMA RequestedNotes ==
    ASSUME TheRule \in Rules, NEW s, IsSession(s), Noted(s), IsAck(s.ack)
    PROVE  LET t == session_update_requested(s, s.ack) IN
           /\ Noted(t) /\ t.state.aborted = s.state.aborted
<1>1. PICK a, n, tuples : /\ a = s.ack /\ n = get_ack_nb_tuples(TheRule, a)
                          /\ tuples = get_ack_tuples(TheRule, a, n)
  OBVIOUS
<1> DEFINE t    == session_update_requested(s, a)
           lost == UNION {LostIn(TheRule, tuples[k]) : k \in DOMAIN tuples}
<1>2. lost \subseteq 0..TheRule.max_fragment_nb - 1
  <2>1. \A k \in DOMAIN tuples :
            tuples[k].window \in 0..TheRule.max_window_nb - 1
    BY <1>1, TupleWindows
  <2>2. \A k \in DOMAIN tuples :
            LostIn(TheRule, tuples[k]) \subseteq 0..TheRule.max_fragment_nb - 1
    BY <2>1, LostPositions
  <2> QED  BY <2>2
<1> HIDE DEF lost
<1>3. t \in {s, [s EXCEPT !.state.requested_frg = @ \cup lost]}
  BY <1>1 DEF session_update_requested, lost, LostIn, IsSession
<1>4. /\ SameAcks(s, t) /\ t.state.aborted = s.state.aborted
      /\ t.state.timestamp = s.state.timestamp
      /\ t.state.requested_frg \subseteq s.state.requested_frg \cup lost
  BY <1>3 DEF IsSession, SameAcks
<1> HIDE DEF t
<1>5. Noted(t)
  BY <1>2, <1>4 DEF Noted, AbortNoted, SameAcks
<1> QED  BY <1>1, <1>4, <1>5 DEF t
-----------------------------------------------------------------------------
(* The inductive invariant of the ACKs.                                     *)

NInv ==
    /\ IInv
    /\ Noted(session)
    /\ clock \in 0..MaxTime
    /\ outcome \in {"acked", "refused", "stored"} =>
           frg \in Uplinks /\ ~session.state.aborted

LEMMA AbortIsAck ==
    ASSUME TheRule \in Rules
    PROVE  /\ IsAck(generate_receiver_abort(TheRule))
           /\ generate_receiver_abort(TheRule).byte_size = 8
           /\ is_ack_receiver_abort(TheRule, generate_receiver_abort(TheRule))
BY AbortRead DEF IsAck

LEMMA NotedIsAck ==
    ASSUME TheRule \in Rules, NEW s, Noted(s) PROVE IsAck(s.ack)
BY AbortIsAck DEF Noted, AbortNoted, Harmless

LEMMA StoredNotes ==
    ASSUME IInv, clock \in 0..MaxTime, Active(session), NEW f \in Uplinks
    PROVE  Good(Stored(f)) /\ Active(Stored(f))
<1>0. Storable(f)
  BY UplinkSlots DEF IInv
<1>1. Good(Stored(f))
  BY <1>0, StoredFacts DEF IInv
<1> DEFINE timed == session_update_timestamp(session, clock)
           s == IF session_expects_fragment(timed, f) THEN timed
                ELSE start_new_session(timed, FALSE)
           u == session_store_frg(s, f)
<1>2. IsSession(timed)
  BY Timestamped DEF IInv, Good, SameStore
<1>3. Active(timed)
  BY TimestampNotes DEF IInv, Good, Active, Noted, AbortNoted, SameAcks
<1>4. Stored(f) = session_update_bitmap(u, f)
  BY DEF Stored
<1> HIDE DEF timed
<1>5. start_new_session(timed, FALSE) = session_construct(TheRule)
  BY <1>2 DEF start_new_session, IsSession
<1>6. IsSession(s) /\ Active(s)
  BY <1>2, <1>3, <1>5, NewSession, NewNotes DEF IInv, Good
<1> HIDE DEF s
<1>7. Active(u)
  BY <1>6, StoreNotes, NotesKept
<1>8. IsSession(u)
  BY <1>6 DEF session_store_frg, IsSession
<1> HIDE DEF u
<1>9. SameNotes(u, Stored(f))
  BY <1>4, <1>8, BitmapNotes
<1> QED  BY <1>1, <1>7, <1>9, NotesKept

LEMMA RecvFragmentNotes ==
    ASSUME IInv, clock \in 0..MaxTime, Active(session), NEW f \in Uplinks,
           RecvFragment(f)
    PROVE  Active(session')
<1> DEFINE stored == Stored(f)
           forgotten == forget_last(stored, f)
<1>1. Good(stored) /\ Active(stored)
  BY StoredNotes
<1>2. \/ session' = [stored EXCEPT !.ack = stored.state.last_ack]
      \/ session' = forgotten
      \/ session' = session_generate_ack(forgotten, f)
  BY DEF RecvFragment
<1> HIDE DEF stored
<1>3. Good(forgotten) /\ Active(forgotten)
  BY <1>1, Forgotten, ForgottenNotes DEF Good
<1> HIDE DEF forgotten
<1>4. CASE session' = [stored EXCEPT !.ack = stored.state.last_ack]
  <2>1. session'.ack = stored.state.last_ack /\ session'.state = stored.state
    BY <1>1, <1>4 DEF Good, IsSession
  <2> QED  BY <1>1, <2>1 DEF Active, Noted, AbortNoted
<1>5. CASE session' = forgotten
  BY <1>3, <1>5
<1>6. CASE session' = session_generate_ack(forgotten, f)
  <2> DEFINE a == generate_ack(TheRule, get_frg_window(f), c_bit(forgotten, f),
                               session_check_bitmaps(forgotten, f))
  <2>1. forgotten.rule = TheRule
    BY <1>3 DEF Good, IsSession
  <2>2. Harmless(a)
    BY <2>1, GeneratedHarmless DEF IInv
  <2>3. session' \in {forgotten, [forgotten EXCEPT !.ack = a]}
    BY <1>6, <2>1 DEF session_generate_ack
  <2> HIDE DEF a
  <2>4. session'.ack \in {forgotten.ack, a} /\ session'.state = forgotten.state
    BY <1>3, <2>3 DEF Good, IsSession
  <2> QED  BY <1>3, <2>2, <2>4 DEF Active, Noted, AbortNoted
<1> QED  BY <1>2, <1>4, <1>5, <1>6

LEMMA NotesStep == NInv /\ [Next]_vars => NInv'
<1> SUFFICES ASSUME NInv, [Next]_vars PROVE NInv'
  OBVIOUS
<1>0. IInv' /\ TheRule \in Rules /\ IsSession(session) /\ Good(session)
  BY NextStep DEF NInv, IInv, Good
<1> DEFINE none == outcome' \notin {"acked", "refused", "stored"}
<1>1. ASSUME NEW f \in Uplinks \cup SenderAborts, Recv(f) PROVE NInv'
  <2>0. clock' \in 0..MaxTime /\ frg' = f
    BY <1>1 DEF Recv, NInv
  <2>1. CASE RecvAborted(f)
    BY <1>0, <2>0, <2>1 DEF RecvAborted, NInv
  <2>2. CASE RecvExpired(f)
    <3> DEFINE ra == generate_receiver_abort(TheRule)
    <3>1. session' = [session EXCEPT !.state.timestamp = -1, !.state.aborted = TRUE,
                                     !.ack = ra, !.state.receiver_abort = ra]
      BY <1>0, <2>2 DEF RecvExpired, session_receiver_abort, IsSession
    <3> HIDE DEF ra
    <3>2. /\ session'.ack = ra /\ session'.state.receiver_abort = ra
          /\ session'.state.aborted = TRUE /\ session'.state.timestamp = -1
          /\ session'.state.last_ack = session.state.last_ack
          /\ session'.state.requested_frg = session.state.requested_frg
      BY <1>0, <3>1 DEF IsSession
    <3>3. -1 \in -1..MaxTime
      BY SessionAssumption
    <3>4. Noted(session')
      BY <3>2, <3>3 DEF NInv, Noted, AbortNoted, ra
    <3> QED  BY <1>0, <2>0, <2>2, <3>4 DEF NInv, RecvExpired, Noted, AbortNoted, Harmless, IsAck
  <2>3. CASE RecvSenderAbort(f)
    <3> DEFINE timed == session_update_timestamp(session, clock)
    <3>1. IsSession(timed)
      BY <1>0, Timestamped DEF SameStore
    <3>2. /\ SameAcks(session, timed)
          /\ timed.state.requested_frg = session.state.requested_frg
      BY <1>0, TimestampNotes DEF NInv
    <3>3. session' = [timed EXCEPT !.state.timestamp = -1, !.state.aborted = TRUE]
      BY <2>3 DEF RecvSenderAbort, session_sender_abort
    <3> HIDE DEF timed
    <3>4. /\ SameAcks(timed, session') /\ session'.state.aborted = TRUE
          /\ session'.state.timestamp = -1
          /\ session'.state.requested_frg = timed.state.requested_frg
      BY <3>1, <3>3 DEF IsSession, SameAcks
    <3>5. -1 \in -1..MaxTime
      BY SessionAssumption
    <3>6. Noted(session')
      BY <3>2, <3>4, <3>5 DEF NInv, Noted, AbortNoted, SameAcks
    <3> QED  BY <1>0, <2>0, <2>3, <3>6 DEF NInv, RecvSenderAbort, Noted, AbortNoted, Harmless, IsAck
  <2>4. CASE RecvFragment(f)
    <3>1. f \in Uplinks /\ Active(session)
      BY <2>4 DEF RecvFragment, SenderAborts, InTime, session_was_aborted, Active, NInv
    <3>2. Active(session')
      BY <2>4, <3>1, RecvFragmentNotes DEF NInv
    <3> QED  BY <1>0, <2>0, <3>1, <3>2 DEF NInv, Active, Noted, AbortNoted, Harmless, IsAck
  <2> QED  BY <1>1, <2>1, <2>2, <2>3, <2>4 DEF Recv
<1>2. CASE Tick
  <2>1. clock' \in 0..MaxTime
    BY <1>2, SessionAssumption DEF Tick, NInv
  <2> QED  BY <1>0, <1>2, <2>1 DEF Tick, NInv, Noted, AbortNoted, Harmless, IsAck
<1>3. CASE Remember
  <2> DEFINE a == CASE outcome = "stored" -> session.state.last_ack
                    [] \E p \in Packets : WholePacket(p)
                                          /\ frg = Frag(p, LastNb(p))
                           -> complete_ack(frg)
                    [] OTHER -> session.ack
  <2>1. session' = [session EXCEPT !.state.last_fragment = frg,
                                   !.state.last_ack = a]
    BY <1>3 DEF Remember
  <2>2. Active(session) /\ frg \in Uplinks
    BY <1>3 DEF Remember, NInv, Active
  <2>3. Harmless(complete_ack(frg))
    BY <1>0, <2>2, CompleteHarmless
  <2>4. Harmless(session.ack) /\ Harmless(session.state.last_ack)
    BY <2>2 DEF Active, Noted, AbortNoted
  <2>5. a \in {session.state.last_ack, complete_ack(frg), session.ack}
    OBVIOUS
  <2> HIDE DEF a
  <2>6. Harmless(a)
    BY <2>3, <2>4, <2>5
  <2>7. /\ session'.ack = session.ack /\ session'.state.last_ack = a
        /\ session'.state.receiver_abort = session.state.receiver_abort
        /\ session'.state.aborted = session.state.aborted
        /\ session'.state.timestamp = session.state.timestamp
        /\ session'.state.requested_frg = session.state.requested_frg
    BY <1>0, <2>1 DEF IsSession
  <2>8. Noted(session')
    BY <2>6, <2>7 DEF NInv, Noted, AbortNoted
  <2> QED  BY <1>0, <1>3, <2>8 DEF NInv, Remember, Noted, AbortNoted, Harmless, IsAck
<1>4. CASE Request
  <2>1. Noted(session')
    BY <1>0, <1>4, RequestedNotes, NotedIsAck DEF Request, NInv
  <2> QED  BY <1>0, <1>4, <2>1 DEF NInv, Request, Noted, AbortNoted, Harmless, IsAck
<1>5. ASSUME NEW retain \in BOOLEAN, StartNewSession(retain) PROVE NInv'
  <2>1. session' = start_new_session(session, retain)
    BY <1>5 DEF StartNewSession
  <2>2. Active(session')
    BY <1>0, <2>1, RestartedNotes DEF NInv, Noted
  <2> QED  BY <1>0, <1>5, <2>2
           DEF NInv, StartNewSession, Active, Noted, AbortNoted, Harmless, IsAck
<1>6. CASE UNCHANGED vars
  BY <1>0, <1>6 DEF vars, NInv, Noted, AbortNoted, Harmless, IsAck
<1> QED  BY <1>1, <1>2, <1>3, <1>4, <1>5, <1>6 DEF Next

LEMMA NotesInvariance == Spec /\ TheRule \in Rules => []NInv
<1>1. Init /\ TheRule \in Rules => NInv
  <2> SUFFICES ASSUME Init, TheRule \in Rules PROVE NInv
    OBVIOUS
  <2>1. IInv
    BY NewSession DEF Init, IInv
  <2>2. Noted(session)
    BY NewNotes DEF Init, Active
  <2> QED  BY <2>1, <2>2, SessionAssumption DEF Init, NInv
<1> QED  BY <1>1, NotesStep, PTL DEF Spec

\* What a sender reads from the session's ACK is a Receiver-Abort when the
\* session was aborted for inactivity, and at no other time: neither a report
\* of losses, a complete ACK, nor the one remembered from before looks like one,
\* and nothing replaces the abort before a new session starts.
THEOREM AbortIsDelivered == Spec /\ TheRule \in Rules => []AbortDelivered
<1>1. NInv => AbortDelivered
  <2> SUFFICES ASSUME NInv PROVE AbortDelivered
    OBVIOUS
  <2>1. TheRule \in Rules /\ AbortNoted(session)
    BY DEF NInv, IInv, Noted
  <2>2. CASE session.state.receiver_abort = NULL_ACK /\ Harmless(session.ack)
    BY <2>2 DEF AbortDelivered, Harmless, is_ack_null
  <2>3. CASE /\ session.state.aborted
             /\ session.ack = generate_receiver_abort(TheRule)
             /\ session.state.receiver_abort = generate_receiver_abort(TheRule)
    <3>1. ~is_ack_null(generate_receiver_abort(TheRule))
      BY <2>1, AbortIsAck, NotNull
    <3> QED  BY <2>1, <2>3, <3>1, AbortIsAck DEF AbortDelivered
  <2> QED  BY <2>1, <2>2, <2>3 DEF AbortNoted
<1> QED  BY NotesInvariance, <1>1, PTL

\* The arrays of a session are within their sizes: no Fragment is stored,
\* registered or requested beyond the positions the Rule has, whatever bits the
\* tuples of an ACK are made of.
THEOREM SessionTypeCorrect == Spec /\ TheRule \in Rules => []TypeOK
<1>1. NInv => TypeOK
  <2> SUFFICES ASSUME NInv PROVE TypeOK
    OBVIOUS
  <2>0. TheRule.max_fragment_nb \in Nat
    BY Formats, Powers DEF NInv, IInv, Single, Op1, Op2, Sized
  <2>1. /\ DOMAIN session.fragments = slots(TheRule)
        /\ session.state.bitmap \subseteq Places
        /\ Held(session) \subseteq session.state.bitmap
    BY DEF NInv, IInv, Good, IsSession, Agrees
  <2>4. is_frg_null(session.fragments[TheRule.max_fragment_nb])
    BY <2>0, <2>1 DEF Held, Places, slots
  <2>2. session.ack.byte_size \in {-1, DOWNLINK_MTU_BITS \div 8}
    BY NotedIsAck DEF NInv, IInv, IsAck, DOWNLINK_MTU_BITS
  <2>3. /\ session.state.requested_frg \subseteq Places
        /\ session.state.timestamp \in -1..MaxTime
    BY DEF NInv, Noted, Places
  <2> QED  BY <2>1, <2>2, <2>3, <2>4 DEF TypeOK
<1> QED  BY NotesInvariance, <1>1, PTL
-----------------------------------------------------------------------------
(* The repeated All-1.                                                      *)

\* The Fragment to which the last ACK was the complete one comes again.
Repeated(f) ==
    /\ InTime
    /\ is_frg_all_1(TheRule, session.state.last_fragment)
    /\ is_ack_complete(TheRule, session.state.last_ack)
    /\ f = session.state.last_fragment

PendingStep ==
    /\ outcome' = "pending"
    /\ session'.ack = session.state.last_ack
    /\ session'.fragments = session.fragments

\* It is expected, so that no session is started for it, and it is known, from
\* the bitmap or from the complete ACK, so that it is not stored again.
LEMMA RepeatedStored ==
    ASSUME NInv, NEW f, Repeated(f)
    PROVE  /\ Stored(f).rule = TheRule
           /\ Stored(f).fragments = session.fragments
           /\ Stored(f).state.last_ack = session.state.last_ack
           /\ Stored(f).state.last_fragment = f
<1> DEFINE timed == session_update_timestamp(session, clock)
<1>1. /\ timed.rule = TheRule /\ timed.fragments = session.fragments
      /\ timed.state.last_ack = session.state.last_ack
      /\ timed.state.last_fragment = f
      /\ timed.state.bitmap = session.state.bitmap
      /\ IsSession(timed)
  BY DEF session_update_timestamp, NInv, IInv, Good, IsSession, Repeated
<1> HIDE DEF timed
<1>2. is_frg_all_1(TheRule, f) /\ is_ack_complete(TheRule, timed.state.last_ack)
  BY <1>1 DEF Repeated
<1>4. session_expects_fragment(timed, f)
  BY <1>1, <1>2 DEF session_expects_fragment
<1>5. session_already_received(timed, f)
  <2>1. timed.state.last_ack.byte_size # 0
    BY <1>1 DEF NInv, Noted, Harmless, IsAck
  <2> QED  BY <1>1, <1>2, <2>1 DEF session_already_received
<1>6. Stored(f) = session_update_bitmap(timed, f)
  BY <1>4, <1>5 DEF Stored, session_store_frg, timed
<1> QED  BY <1>1, <1>6 DEF session_update_bitmap, IsSession

\* A Sender-Abort is too short to be an All-1.
LEMMA AbortIsNoAll1 ==
    ASSUME TheRule \in Rules, NEW f \in Uplinks \cup SenderAborts,
           is_frg_all_1(TheRule, f)
    PROVE  ~is_frg_sender_abort(TheRule, f)
<1>1. TheRule.all1_header_len \in Int
  BY Formats DEF Single, Op1, Op2, Sized
<1>2. f.byte_size \in Int
  <2>1. CASE f \in Uplinks
    <3>1. PICK p \in Packets : f \in {Frag(p, i) : i \in 0..LastNb(p)}
      BY <2>1 DEF Uplinks
    <3>2. PICK i \in 0..LastNb(p) : f = Frag(p, i)
      BY <3>1
    <3>3. PacketSizes[p] \in Nat /\ Accepted(TheRule, PacketSizes[p])
      BY SessionAssumption, NotRefused
    <3>4. Fields(TheRule, PacketSizes[p], i, f)
      BY <3>2, <3>3, GeneratedFields DEF LastNb, LastOf, Frag, FragmentsOf
    <3> QED  BY <3>4 DEF Fields, UPLINK_MTU_BYTES
  <2>2. CASE f \in SenderAborts
    <3>1. PICK p \in Packets : f = generate_sender_abort(TheRule, Frag(p, 0))
      BY <2>2 DEF SenderAborts
    <3>2. f.byte_size
              = round_to_next_multiple(TheRule.rcs_idx, L2_WORD_SIZE) \div 8
      BY <3>1 DEF generate_sender_abort
    <3>3. TheRule.rcs_idx \in Int
      BY DEF Rules, SingleByteRule, DoubleByteOp1Rule, DoubleByteOp2Rule, RuleOf
    <3> QED  BY <3>2, <3>3 DEF round_to_next_multiple, L2_WORD_SIZE
  <2> QED  BY <2>1, <2>2
<1> QED  BY <1>1, <1>2 DEF is_frg_all_1, is_frg_sender_abort

LEMMA RepeatedStep ==
    ASSUME NInv, Next, outcome' # "none", Repeated(frg') PROVE PendingStep
<1>1. PICK f \in Uplinks \cup SenderAborts : Recv(f)
  BY DEF Next, Tick, Remember, Request, StartNewSession
<1>2. Repeated(f)
  BY <1>1 DEF Recv
<1>3. ~RecvAborted(f) /\ ~RecvExpired(f)
  BY <1>2 DEF Repeated, InTime, RecvAborted, RecvExpired
<1>4. ~RecvSenderAbort(f)
  BY <1>2, AbortIsNoAll1 DEF Repeated, RecvSenderAbort, NInv, IInv
<1>5. RecvFragment(f)
  BY <1>1, <1>3, <1>4 DEF Recv
<1>6. session_has_pending_ack(Stored(f), f)
  BY <1>2, RepeatedStored DEF session_has_pending_ack, Repeated
<1>7. /\ session' = [Stored(f) EXCEPT !.ack = Stored(f).state.last_ack]
      /\ outcome' = "pending"
  BY <1>5, <1>6 DEF RecvFragment
<1>8. IsSession(Stored(f))
  <2>1. f \in Uplinks
    BY <1>5 DEF RecvFragment, SenderAborts
  <2> QED  BY <2>1, UplinkSlots, StoredFacts DEF NInv, IInv, Good
<1> QED  BY <1>2, <1>7, <1>8, RepeatedStored DEF PendingStep, IsSession

\* Whatever came in between, an All-1 that is sent again because its complete
\* ACK was lost gets that ACK and changes nothing that is stored.
THEOREM RepeatedAll1IsAnswered == Spec /\ TheRule \in Rules => PendingAckAnswered
<1>1. NInv /\ [Next]_vars =>
          [/\ outcome' # "none" /\ InTime
           /\ is_frg_all_1(TheRule, session.state.last_fragment)
           /\ is_ack_complete(TheRule, session.state.last_ack)
           /\ frg' = session.state.last_fragment
           => /\ outcome' = "pending"
              /\ session'.ack = session.state.last_ack
              /\ session'.fragments = session.fragments]_vars
  BY RepeatedStep DEF Repeated, PendingStep
<1> QED  BY NotesInvariance, <1>1, PTL DEF PendingAckAnswered, Spec
-----------------------------------------------------------------------------
(* What an ACK reports of the store.                                        *)

\* f is Fragment i of packet p.
IsUplink(f, p, i) ==
    /\ p \in Packets /\ i \in 0..LastNb(p)
    /\ f = Frag(p, i)
    /\ nb(f) = i /\ f.w = i \div TheRule.window_size /\ f.data.packet = p
    /\ is_frg_all_1(TheRule, f) <=> i = LastNb(p)
    /\ i = LastNb(p) => f.rcs = (i % TheRule.window_size) + 1

LEMMA UplinkFacts ==
    ASSUME TheRule \in Rules, NEW f \in Uplinks
    PROVE  \E p, i : IsUplink(f, p, i)
<1>0. PICK p \in Packets : f \in {Frag(p, i) : i \in 0..LastNb(p)}
  BY DEF Uplinks
<1>1. PICK i \in 0..LastNb(p) : f = Frag(p, i)
  BY <1>0
<1> DEFINE size == PacketSizes[p]
<1>2. size \in Nat /\ Accepted(TheRule, size)
  BY SessionAssumption, NotRefused
<1>3. /\ i \in 0..LastOf(TheRule, size) /\ f = fragment(TheRule, p, size)[i]
      /\ LastNb(p) = LastOf(TheRule, size)
  BY <1>1 DEF LastNb, LastOf, Frag, FragmentsOf
<1>4. Fields(TheRule, size, i, f)
  BY <1>2, <1>3, GeneratedFields
<1>5. nb(f) = i /\ (is_frg_all_1(TheRule, f) <=> i = LastOf(TheRule, size))
  BY <1>2, <1>3, <1>4, Recognised DEF nb
<1>6. f.data.packet = p
  <2>1. PICK g : g = fragment(TheRule, p, size)[i]
    OBVIOUS
  <2>2. get_frg_payload(TheRule, g)
            = [packet |-> p, from |-> i * regular_payload_byte_size(TheRule),
               size |-> payload_size(TheRule, size, i)]
    BY <1>2, <1>3, <2>1, PayloadFound
  <2>3. get_frg_payload(TheRule, g).packet = g.data.packet
    BY DEF get_frg_payload
  <2> QED  BY <1>3, <2>1, <2>2, <2>3
<1>7. /\ f.w = i \div TheRule.window_size
      /\ i = LastOf(TheRule, size) => f.rcs = (i % TheRule.window_size) + 1
  BY <1>4 DEF Fields
<1> QED  BY <1>1, <1>3, <1>5, <1>6, <1>7 DEF IsUplink

\* Windows divide the positions.
LEMMA Positions ==
    ASSUME TheRule \in Rules, NEW i \in Nat,
           NEW n, n = TheRule.window_size, NEW w, w = i \div n, NEW k, k = i % n
    PROVE  /\ n \in {7, 12, 31} /\ w \in Nat /\ k \in 0..n - 1
           /\ w * n + k = i
<1>1. n \in {7, 12, 31}
  BY Layouts
<1>2. CASE n = 7
  BY <1>2
<1>3. CASE n = 12
  BY <1>3
<1>4. CASE n = 31
  BY <1>4
<1> QED  BY <1>1, <1>2, <1>3, <1>4

\* i is the last position of the window of q, and is q when it is not beyond.
EndsWindow(i, q, n, w) ==
    /\ i \in Nat /\ i \div n = w /\ i % n = n - 1
    /\ i <= q => (q % n) + 1 = n

LEMMA LastPlace ==
    ASSUME NEW n \in {7, 12, 31}, NEW q \in Nat, NEW w, w = q \div n,
           NEW i, i = w * n + n - 1
    PROVE  EndsWindow(i, q, n, w)
<1>1. CASE n = 7
  BY <1>1 DEF EndsWindow
<1>2. CASE n = 12
  BY <1>2 DEF EndsWindow
<1>3. CASE n = 31
  BY <1>3 DEF EndsWindow
<1> QED  BY <1>1, <1>2, <1>3

\* What the bits of session_get_bitmap say.
LEMMA BitmapBits ==
    ASSUME TheRule \in Rules, NEW s, s.rule = TheRule, NEW i \in Nat
    PROVE  LET n == TheRule.window_size IN
           session_get_bitmap(s, i \div n)[(i % n) + 1]
               = IF i \in s.state.bitmap THEN 1 ELSE 0
<1>1. PICK n : n = TheRule.window_size
  OBVIOUS
<1>2. PICK w, k : w = i \div n /\ k = i % n
  OBVIOUS
<1>3. n \in {7, 12, 31} /\ w \in Nat /\ k \in 0..n - 1 /\ w * n + k = i
  BY <1>1, <1>2, Positions
<1>4. k + 1 \in 1..n /\ w * n + (k + 1) - 1 = i
  BY <1>3
<1>5. session_get_bitmap(s, w)
          = [j \in 1..n |-> IF w * n + j - 1 \in s.state.bitmap THEN 1 ELSE 0]
  BY <1>1 DEF session_get_bitmap
<1>6. session_get_bitmap(s, w)[k + 1] = IF i \in s.state.bitmap THEN 1 ELSE 0
  BY <1>4, <1>5
<1> QED  BY <1>1, <1>2, <1>6

\* What is registered in the window of f is held.
Founded(s, f) ==
    /\ Good(s)
    /\ \A i \in Extra(s) : i \div TheRule.window_size # get_frg_window(f)

\* Every Fragment that is stored came from the sender.
FromSender(s) ==
    \A i \in slots(TheRule) :
        is_frg_null(s.fragments[i]) \/ s.fragments[i] \in Uplinks

OnlyPacket(s, p) ==
    \A i \in slots(TheRule) :
        is_frg_null(s.fragments[i]) \/ s.fragments[i].data.packet = p

\* A window of session_check_bitmaps is the session's own or blank; it is not
\* blank when a Fragment before f is missing in it.
LEMMA MissingIsLost ==
    ASSUME TheRule \in Rules, NEW s, s.rule = TheRule, NEW f \in Uplinks,
           NEW i \in Nat, i < nb(f), i \notin s.state.bitmap,
           NEW w, w = i \div TheRule.window_size,
           NEW bm, bm = session_check_bitmaps(s, f)[w]
    PROVE  /\ w \in 0..get_frg_window(f)
           /\ bm # <<>> /\ bm[(i % TheRule.window_size) + 1] = 0
<1>1. PICK p, q : IsUplink(f, p, q)
  BY UplinkFacts
<1>2. PICK n, k : n = TheRule.window_size /\ k = i % n
  OBVIOUS
<1>3. n \in {7, 12, 31}
  BY <1>2, Layouts
<1>4. q \in Nat /\ i < q /\ f.w = q \div n
  BY <1>1, <1>2 DEF IsUplink
<1>5. /\ w \in Nat /\ k \in 0..n - 1 /\ w <= f.w /\ f.w \in Nat
      /\ w = f.w => k < q % n
  BY <1>2, <1>3, <1>4
<1>6. f.w \in 0..TheRule.max_window_nb - 1 /\ TheRule.max_window_nb \in Nat
  BY UplinkWindow, Layouts
<1>7. w \in 0..TheRule.max_window_nb - 1
  BY <1>5, <1>6
<1> DEFINE own == session_get_bitmap(s, w)
<1>8. own[k + 1] = 0 /\ own # <<>> /\ ~is_monochar(own, 1)
  <2>1. own[k + 1] = 0
    BY <1>2, BitmapBits
  <2>2. DOMAIN own = 1..n
    BY <1>2 DEF session_get_bitmap
  <2>3. k + 1 \in DOMAIN own
    BY <1>3, <1>5, <2>2
  <2> HIDE DEF own
  <2> QED  BY <2>1, <2>3 DEF is_monochar
<1>9. is_frg_all_1(TheRule, f) /\ w = f.w => own # expected_bitmap(TheRule, f)
  <2> SUFFICES ASSUME is_frg_all_1(TheRule, f), w = f.w
               PROVE  own # expected_bitmap(TheRule, f)
    OBVIOUS
  <2>1. f.rcs = (q % n) + 1
    BY <1>1, <1>2 DEF IsUplink
  <2>2. k + 1 \in 1..n /\ k + 1 < f.rcs
    BY <1>3, <1>4, <1>5, <2>1
  <2>3. expected_bitmap(TheRule, f)[k + 1] = 1
    BY <1>2, <2>2 DEF expected_bitmap
  <2> QED  BY <1>8, <2>3
<1>10. bm = own
  BY <1>5, <1>7, <1>8, <1>9 DEF session_check_bitmaps, get_frg_window
<1> QED  BY <1>2, <1>5, <1>8, <1>10 DEF get_frg_window

\* With the Fragments of one packet, a window that is not left blank has a
\* Fragment to report: none is full.
LEMMA NoFullWindow ==
    ASSUME TheRule \in Rules, NEW s, NEW f \in Uplinks, Founded(s, f), FromSender(s),
           OnlyPacket(s, f.data.packet),
           NEW w \in 0..TheRule.max_window_nb - 1,
           NEW bm, bm = session_check_bitmaps(s, f)[w], bm # <<>>
    PROVE  ~is_monochar(bm, 1)
<1>1. PICK p, q : IsUplink(f, p, q)
  BY UplinkFacts
<1>2. PICK n : n = TheRule.window_size /\ n \in {7, 12, 31}
  BY Layouts
<1>3. s.rule = TheRule
  BY DEF Founded, Good, IsSession
<1> DEFINE own == session_get_bitmap(s, w)
<1>4. /\ bm = own /\ w <= f.w
      /\ IF is_frg_all_1(TheRule, f) /\ w = f.w
         THEN own # expected_bitmap(TheRule, f) ELSE ~is_monochar(own, 1)
  BY <1>3 DEF session_check_bitmaps, get_frg_window
<1> HIDE DEF own
<1>5. SUFFICES ASSUME is_monochar(own, 1) PROVE FALSE
  BY <1>4
<1>6. is_frg_all_1(TheRule, f) /\ w = f.w /\ own # expected_bitmap(TheRule, f)
  BY <1>4, <1>5
<1>7. q = LastNb(p) /\ f.rcs = (q % n) + 1 /\ w = q \div n /\ q \in Nat
  BY <1>1, <1>2, <1>6 DEF IsUplink
<1>0. PICK i : i = w * n + n - 1
  OBVIOUS
<1>8. /\ i \in Nat /\ i \div n = w /\ i % n = n - 1
      /\ i <= q => (q % n) + 1 = n
  <2>1. EndsWindow(i, q, n, w)
    BY <1>0, <1>2, <1>7, LastPlace
  <2> QED  BY <2>1 DEF EndsWindow
<1>9. own = [j \in 1..n |-> IF w * n + j - 1 \in s.state.bitmap THEN 1 ELSE 0]
  BY <1>2, <1>3 DEF session_get_bitmap, own
<1>10. \A j \in 1..n : own[j] = 1
  <2>1. DOMAIN own = 1..n
    BY <1>9
  <2> QED  BY <1>5, <2>1 DEF is_monochar
<1>11. i \in s.state.bitmap
  <2>1. own[(i % n) + 1] = IF i \in s.state.bitmap THEN 1 ELSE 0
    BY <1>2, <1>3, <1>8, BitmapBits DEF own
  <2>2. (i % n) + 1 \in 1..n
    BY <1>2, <1>8
  <2> QED  BY <1>10, <2>1, <2>2
<1>12. PICK g : g = s.fragments[i]
  OBVIOUS
<1>13. i \in slots(TheRule) /\ ~is_frg_null(g) /\ nb(g) = i
  <2>1. i \notin Extra(s)
    BY <1>2, <1>6, <1>7, <1>8 DEF Founded, get_frg_window
  <2> QED  BY <1>11, <1>12, <2>1 DEF Founded, Good, Agrees, Held, Extra
<1>14. g \in Uplinks /\ g.data.packet = p
  BY <1>1, <1>12, <1>13 DEF FromSender, OnlyPacket, IsUplink
<1>15. i <= LastNb(p)
  <2>1. PICK p2, q2 : IsUplink(g, p2, q2)
    BY <1>14, UplinkFacts
  <2> QED  BY <1>13, <1>14, <2>1 DEF IsUplink
<1>16. f.rcs = n
  BY <1>7, <1>8, <1>15
<1>17. own = expected_bitmap(TheRule, f)
  <2>1. expected_bitmap(TheRule, f)
            = [j \in 1..n |-> IF j < f.rcs \/ j = n THEN 1 ELSE 0]
    BY <1>2 DEF expected_bitmap
  <2>2. \A j \in 1..n : j < n \/ j = n
    BY <1>2
  <2>3. \A j \in 1..n : expected_bitmap(TheRule, f)[j] = 1
    BY <1>16, <2>1, <2>2
  <2> QED  BY <1>9, <1>10, <2>1, <2>3
<1> QED  BY <1>6, <1>17

\* The ACK of s is the report made for f.
Acked(s, f) ==
    /\ c_bit(s, f) = 0
    /\ s.ack = generate_ack(TheRule, get_frg_window(f), 0, session_check_bitmaps(s, f))

\* What the tuples say of position i.
BitsOf(tuples, i) ==
    {tuples[k].bitmap[(i % TheRule.window_size) + 1] :
        k \in {j \in DOMAIN tuples : tuples[j].window = i \div TheRule.window_size}}

ReportsStore(s, f, tuples) ==
    \A i \in slots(TheRule) \ Extra(s) :
        IF is_frg_null(s.fragments[i]) THEN i < nb(f) => BitsOf(tuples, i) = {0}
        ELSE 0 \notin BitsOf(tuples, i)

LEMMA AckReports ==
    ASSUME TheRule \in Rules, NEW s, NEW f \in Uplinks, Founded(s, f), FromSender(s),
           OnlyPacket(s, f.data.packet), Acked(s, f),
           NEW wdw, wdw = get_frg_window(f),
           NEW bms, bms = session_check_bitmaps(s, f),
           NEW lost, lost = lost_windows(wdw, bms),
           Len(lost) <= ReadLimit(TheRule),
           NEW tuples, tuples = get_ack_tuples(TheRule, s.ack,
                                               get_ack_nb_tuples(TheRule, s.ack))
    PROVE  ~is_ack_complete(TheRule, s.ack) /\ ReportsStore(s, f, tuples)
<1>1. PICK a, n : a = s.ack /\ n = get_ack_nb_tuples(TheRule, a)
  OBVIOUS
<1>2. Reportable(TheRule, wdw, bms) /\ s.rule = TheRule
  BY CheckedReportable DEF Founded, Good, IsSession
<1>3. a = generate_ack(TheRule, wdw, 0, bms)
  BY <1>1 DEF Acked
<1>4. ~is_ack_complete(TheRule, s.ack)
  BY <1>1, <1>2, <1>3, ReportHeader, LossesRead
<1>5. wdw \in Nat /\ wdw \in 0..TheRule.max_window_nb - 1
  BY UplinkWindow, Layouts DEF get_frg_window
<1>6. DOMAIN bms = 0..TheRule.max_window_nb - 1
      /\ \A w \in DOMAIN bms : bms[w] # <<>> =>
             w \in 0..wdw /\ bms[w] = session_get_bitmap(s, w)
  BY <1>2 DEF session_check_bitmaps
<1>7. \A w \in DOMAIN bms : bms[w] # <<>> => ~is_monochar(bms[w], 1)
  BY <1>6, NoFullWindow
<1>8. \A w \in DOMAIN bms : bms[w] # <<>> => \E k \in 1..Len(lost) : lost[k] = w
  <2> SUFFICES ASSUME NEW w \in DOMAIN bms, bms[w] # <<>>
               PROVE  \E k \in 1..Len(lost) : lost[k] = w
    OBVIOUS
  <2>1. wdw \in Nat /\ w \in 0..wdw /\ ~is_monochar(bms[w], 1)
    BY <1>5, <1>6, <1>7
  <2> QED  BY <2>1, LossIsListed
<1>9. lost # <<>>
  <2>1. PICK w \in DOMAIN bms : bms[w] # <<>>
    BY DEF Acked, c_bit, finds_lost
  <2> QED  BY <1>8, <2>1
<1>10. /\ n = ReadFrom(TheRule, lost)
       /\ tuples = [k \in 1..n |-> [window |-> lost[k], bitmap |-> bms[lost[k]]]]
  BY <1>1, <1>2, <1>3, <1>9, ReportRead
<1>11. n = Len(lost)
  BY <1>10 DEF ReadFrom
<1>12. ASSUME NEW i \in slots(TheRule) \ Extra(s), is_frg_null(s.fragments[i]),
              i < nb(f)
       PROVE  BitsOf(tuples, i) = {0}
  <2>1. PICK w : w = i \div TheRule.window_size
    OBVIOUS
  <2>2. i \in Nat /\ i \notin s.state.bitmap
    BY <1>12 DEF slots, Extra, Held
  <2>3. /\ w \in 0..wdw
        /\ bms[w] # <<>> /\ bms[w][(i % TheRule.window_size) + 1] = 0
    BY <1>2, <1>12, <2>1, <2>2, MissingIsLost
  <2>4. w \in DOMAIN bms
    BY <1>5, <1>6, <2>3, Layouts
  <2>5. PICK k \in 1..n : lost[k] = w
    BY <1>8, <1>11, <2>3, <2>4
  <2>6. k \in DOMAIN tuples /\ tuples[k].window = w /\ tuples[k].bitmap = bms[w]
    BY <1>10, <2>5
  <2>7. \A j \in DOMAIN tuples : tuples[j].window = w => tuples[j].bitmap = bms[w]
    BY <1>10
  <2> QED  BY <2>1, <2>3, <2>6, <2>7 DEF BitsOf
<1>13. ASSUME NEW i \in slots(TheRule), ~is_frg_null(s.fragments[i])
       PROVE  0 \notin BitsOf(tuples, i)
  <2>1. PICK w : w = i \div TheRule.window_size
    OBVIOUS
  <2>2. i \in Nat /\ i \in s.state.bitmap
    BY <1>13 DEF slots, Founded, Good, Agrees, Held
  <2>3. session_get_bitmap(s, w)[(i % TheRule.window_size) + 1] = 1
    BY <1>2, <2>1, <2>2, BitmapBits
  <2>4. ASSUME NEW j \in DOMAIN tuples, tuples[j].window = w
        PROVE  tuples[j].bitmap = session_get_bitmap(s, w)
    <3>1. j \in 1..Len(lost) /\ lost[j] = w /\ tuples[j].bitmap = bms[w]
      BY <1>10, <1>11, <2>4
    <3>2. w \in 0..wdw /\ bms[w] # <<>>
      BY <1>5, <3>1, ListedIsLoss
    <3>3. w \in DOMAIN bms
      BY <1>5, <1>6, <3>2, Layouts
    <3> QED  BY <1>6, <3>1, <3>2, <3>3
  <2>5. \A j \in DOMAIN tuples : tuples[j].window = w =>
            tuples[j].bitmap[(i % TheRule.window_size) + 1] = 1
    BY <2>3, <2>4
  <2> QED  BY <2>1, <2>5 DEF BitsOf
<1> QED  BY <1>4, <1>12, <1>13 DEF ReportsStore

LInv ==
    /\ NInv
    /\ FromSender(session)
    /\ outcome = "acked" => Acked(session, frg)

LEMMA SameReport ==
    ASSUME NEW s, NEW t, NEW f, t.rule = s.rule, t.state.bitmap = s.state.bitmap
    PROVE  /\ session_check_bitmaps(t, f) = session_check_bitmaps(s, f)
           /\ c_bit(t, f) = c_bit(s, f)
<1>1. \A w : session_get_bitmap(t, w) = session_get_bitmap(s, w)
  BY DEF session_get_bitmap
<1>2. session_check_bitmaps(t, f) = session_check_bitmaps(s, f)
  BY <1>1 DEF session_check_bitmaps
<1> QED  BY <1>2 DEF c_bit

\* An ACK is only generated with C=0: without losses every bitmap is blank, and
\* a blank bitmap is not made of ones.
LEMMA NotRefusedLosses ==
    ASSUME TheRule \in Rules, NEW s, s.rule = TheRule, NEW f \in Uplinks,
           ~session_generate_ack_refuses(s, f)
    PROVE  c_bit(s, f) = 0
<1> SUFFICES ASSUME c_bit(s, f) # 0 PROVE session_generate_ack_refuses(s, f)
  OBVIOUS
<1>1. PICK bms : bms = session_check_bitmaps(s, f)
  OBVIOUS
<1>2. c_bit(s, f) = 1 /\ ~finds_lost(bms)
  BY <1>1 DEF c_bit
<1>3. 0 \in DOMAIN bms /\ 0 \in 0..get_frg_window(f)
  BY <1>1, UplinkWindow, Layouts DEF session_check_bitmaps, get_frg_window
<1>4. bms[0] = <<>>
  BY <1>2, <1>3 DEF finds_lost
<1>5. ~is_monochar(bms[0], 1)
  BY <1>4 DEF is_monochar
<1> QED  BY <1>1, <1>2, <1>3, <1>5
         DEF session_generate_ack_refuses, generate_ack_refuses

LEMMA RecvFragmentReports ==
    ASSUME LInv, NEW f \in Uplinks, RecvFragment(f), frg' = f
    PROVE  FromSender(session') /\ (outcome' = "acked" => Acked(session', f))
<1>0. IInv /\ TheRule \in Rules /\ Storable(f)
  BY UplinkSlots DEF LInv, NInv, IInv
<1> DEFINE stored == Stored(f)
           forgotten == forget_last(stored, f)
<1>1. /\ Good(stored)
      /\ \A i \in slots(TheRule) :
             stored.fragments[i] \in {session.fragments[i], NULL_FRG, f}
  BY <1>0, StoredFacts DEF IInv
<1>2. /\ Good(forgotten) /\ forgotten.fragments = stored.fragments
  BY <1>1, Forgotten
<1>3. \/ session' = [stored EXCEPT !.ack = stored.state.last_ack]
         /\ outcome' = "pending"
      \/ session' = forgotten /\ outcome' = "stored"
      \/ /\ session' = session_generate_ack(forgotten, f)
         /\ outcome' = IF session_generate_ack_refuses(forgotten, f)
                       THEN "refused" ELSE "acked"
  BY DEF RecvFragment
<1> HIDE DEF stored, forgotten
<1>4. session'.fragments = stored.fragments
  BY <1>1, <1>2, <1>3 DEF session_generate_ack, Good, IsSession
<1>5. FromSender(session')
  <2>1. is_frg_null(NULL_FRG)
    BY DEF is_frg_null
  <2> QED  BY <1>1, <1>4, <2>1 DEF LInv, FromSender
<1>6. ASSUME outcome' = "acked" PROVE Acked(session', f)
  <2>1. /\ session' = session_generate_ack(forgotten, f)
        /\ ~session_generate_ack_refuses(forgotten, f)
    BY <1>3, <1>6
  <2>2. forgotten.rule = TheRule
    BY <1>2 DEF Good, IsSession
  <2>3. c_bit(forgotten, f) = 0
    BY <1>0, <2>1, <2>2, NotRefusedLosses
  <2>4. /\ session'.rule = forgotten.rule
        /\ session'.state.bitmap = forgotten.state.bitmap
        /\ session'.ack = generate_ack(TheRule, get_frg_window(f), 0,
                                       session_check_bitmaps(forgotten, f))
    BY <1>2, <2>1, <2>2, <2>3 DEF session_generate_ack, Good, IsSession
  <2>5. /\ session_check_bitmaps(session', f) = session_check_bitmaps(forgotten, f)
        /\ c_bit(session', f) = c_bit(forgotten, f)
    BY <2>4, SameReport
  <2> QED  BY <2>3, <2>4, <2>5 DEF Acked
<1> QED  BY <1>5, <1>6

LEMMA ReportStep == LInv /\ [Next]_vars => LInv'
<1> SUFFICES ASSUME LInv, [Next]_vars PROVE LInv'
  OBVIOUS
<1>0. NInv' /\ NInv /\ IsSession(session) /\ Good(session)
  BY NotesStep DEF LInv, NInv, IInv, Good
<1>1. ASSUME session'.fragments = session.fragments, outcome' # "acked"
      PROVE  LInv'
  BY <1>0, <1>1 DEF LInv, FromSender
<1>2. ASSUME NEW f \in Uplinks \cup SenderAborts, Recv(f) PROVE LInv'
  <2>1. CASE RecvAborted(f)
    BY <1>1, <2>1 DEF RecvAborted
  <2>2. CASE RecvExpired(f)
    BY <1>0, <1>1, <2>2, ReceiverAborted DEF RecvExpired, SameStore
  <2>3. CASE RecvSenderAbort(f)
    <3>1. SameStore(session, session_update_timestamp(session, clock))
      BY <1>0, Timestamped
    <3>2. SameStore(session_update_timestamp(session, clock), session')
      BY <2>3, <3>1, SenderAborted DEF RecvSenderAbort, SameStore
    <3>3. session'.fragments = session.fragments
      BY <3>1, <3>2 DEF SameStore
    <3> QED  BY <1>1, <2>3, <3>3 DEF RecvSenderAbort
  <2>4. CASE RecvFragment(f)
    <3>1. f \in Uplinks /\ frg' = f
      BY <1>2, <2>4 DEF Recv, RecvFragment, SenderAborts
    <3>2. FromSender(session') /\ (outcome' = "acked" => Acked(session', f))
      BY <2>4, <3>1, RecvFragmentReports
    <3> QED  BY <1>0, <3>1, <3>2
             DEF LInv, FromSender, Acked, c_bit, session_check_bitmaps,
                 session_get_bitmap
  <2> QED  BY <1>2, <2>1, <2>2, <2>3, <2>4 DEF Recv
<1>3. CASE Tick
  BY <1>1, <1>3 DEF Tick
<1>4. CASE Remember
  <2> DEFINE a == CASE outcome = "stored" -> session.state.last_ack
                    [] \E p \in Packets : WholePacket(p)
                                          /\ frg = Frag(p, LastNb(p))
                           -> complete_ack(frg)
                    [] OTHER -> session.ack
  <2>1. session' = [session EXCEPT !.state.last_fragment = frg,
                                   !.state.last_ack = a]
    BY <1>4 DEF Remember
  <2> HIDE DEF a
  <2>2. session'.fragments = session.fragments
    BY <1>0, <2>1 DEF IsSession
  <2> QED  BY <1>1, <1>4, <2>2 DEF Remember
<1>5. CASE Request
  BY <1>0, <1>1, <1>5, RequestedSame DEF Request, SameStore
<1>6. ASSUME NEW retain \in BOOLEAN, StartNewSession(retain) PROVE LInv'
  <2>1. session' = start_new_session(session, retain) /\ outcome' = "none"
    BY <1>6 DEF StartNewSession
  <2>2. session'.fragments = [i \in slots(TheRule) |-> NULL_FRG]
    BY <1>0, <2>1, Restarted
  <2> QED  BY <1>0, <2>1, <2>2 DEF LInv, FromSender, is_frg_null
<1>7. CASE UNCHANGED vars
  BY <1>0, <1>7 DEF vars, LInv, FromSender, Acked, c_bit, session_check_bitmaps,
                    session_get_bitmap
<1> QED  BY <1>2, <1>3, <1>4, <1>5, <1>6, <1>7 DEF Next

LEMMA ReportInvariance == Spec /\ TheRule \in Rules => []LInv
<1>1. Init /\ NInv => LInv
  BY NewSession DEF Init, LInv, NInv, IInv, FromSender, is_frg_null
<1> QED  BY <1>1, ReportStep, NotesInvariance, PTL DEF Spec

\* The windows of which something is reported for the last Fragment.
LossyWindows ==
    lost_windows(get_frg_window(frg), session_check_bitmaps(session, frg))

LEMMA ReportFollows ==
    ASSUME LInv, Len(LossyWindows) <= ReadLimit(TheRule) PROVE LossesReported
<1> SUFFICES ASSUME outcome = "acked", OnePacket,
                    \A i \in Unfounded :
                        i \div TheRule.window_size # get_frg_window(frg)
             PROVE  LossesReported
  BY DEF LossesReported
<1>1. /\ TheRule \in Rules /\ Good(session) /\ FromSender(session)
      /\ frg \in Uplinks /\ Acked(session, frg)
  BY DEF LInv, NInv, IInv
<1>e. Extra(session) = Unfounded
  BY DEF Extra, Held, Unfounded, StoredSlots
<1>0. Founded(session, frg)
  BY <1>1, <1>e DEF Founded
<1>2. OnlyPacket(session, frg.data.packet)
  BY DEF OnePacket, OnlyPacket
<1>3. /\ ~is_ack_complete(TheRule, session.ack)
      /\ ReportsStore(session, frg, Reported)
  BY <1>0, <1>1, <1>2, AckReports DEF LossyWindows, Reported
<1> QED  BY <1>3, <1>e DEF LossesReported, ReportsStore, bits_reported, BitsOf, nb

\* As long as the losses lie in no more windows than a sender reads, it learns
\* from the 64 bits of every Fragment that is missing before the one that asked
\* and whose bit is not set, and of no Fragment that is stored: the header, the
\* tuples and the positions in the store say the same, under every Rule and
\* whatever came before.
THEOREM LossesAreReported ==
    Spec /\ TheRule \in Rules =>
        [](Len(LossyWindows) <= ReadLimit(TheRule) => LossesReported)
<1>1. LInv => (Len(LossyWindows) <= ReadLimit(TheRule) => LossesReported)
  BY ReportFollows
<1> QED  BY ReportInvariance, <1>1, PTL

\* Under a single-byte Rule a sender reads all four windows, so that no losses are
\* too many.
THEOREM SingleByteReportsAll ==
    Spec /\ TheRule \in Rules /\ TheRule.rule_id_size = 3 => []LossesReported
<1> SUFFICES ASSUME TheRule.rule_id_size = 3
             PROVE  Spec /\ TheRule \in Rules => []LossesReported
  OBVIOUS
<1>1. LInv => LossesReported
  <2> SUFFICES ASSUME LInv, outcome = "acked" PROVE LossesReported
    BY DEF LossesReported
  <2>1. TheRule \in Rules /\ frg \in Uplinks /\ session.rule = TheRule
    BY DEF LInv, NInv, IInv, Good, IsSession
  <2>2. Reportable(TheRule, get_frg_window(frg), session_check_bitmaps(session, frg))
    BY <2>1, CheckedReportable
  <2>3. PICK lost : lost = LossyWindows
    OBVIOUS
  <2>4. Len(lost) <= TheRule.max_window_nb
    BY <2>1, <2>2, <2>3, LostWindows DEF LossyWindows
  <2>5. TheRule.max_window_nb = 4 /\ ReadLimit(TheRule) = 4
    BY <2>1, Layouts DEF ReadLimit
  <2> QED  BY <2>3, <2>4, <2>5, ReportFollows
<1> QED  BY ReportInvariance, <1>1, PTL
=============================================================================
