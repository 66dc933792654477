------------------------ MODULE SigfoxSocket_proofs ------------------------
(***************************************************************************)
(* No answer is handed out twice, for any number of clients, messages and   *)
(* answers and any timeouts: what a client was handed is older than what is *)
(* in its buffer, and that is older than what is in its socket.             *)
(***************************************************************************)
EXTENDS SigfoxSocket, SequenceTheorems, TLAPS

ClientStates ==
    [expects_ack : BOOLEAN, seqnum : Nat, timeout : Nat,
     rcvtimeo : [tv_sec : Int, tv_usec : Int],
     buffer : Nat, waiting : BOOLEAN]

ServerStates == [cli_addr : Clients \cup {NoAddress}, sent : Nat]

Types ==
    /\ client \in [Clients -> ClientStates]
    /\ server \in ServerStates
    /\ uplink \in Seq(Clients)
    /\ downlink \in [Clients -> Seq(Nat)]
    /\ read \in [Clients -> SUBSET Nat]

Elements(q) == {q[k] : k \in DOMAIN q}

\* Of two buffers that are messages, x was sent first.
Before(x, y) == (x # NoMessage /\ y # NoMessage) => x < y

AllBefore(S, T) == \A x \in S, y \in T : Before(x, y)

Increasing(q) == \A i, j \in DOMAIN q : i < j => Before(q[i], q[j])

\* Read before buffered before in the socket, all of it sent.
Ordered(R, b, q, n) ==
    /\ Increasing(q)
    /\ AllBefore(R, {b} \cup Elements(q))
    /\ AllBefore({b}, Elements(q))
    /\ NoMessage \notin R
    /\ \A m \in R \cup {b} \cup Elements(q) : m \in Nat /\ m <= n

InOrder(c) == Ordered(read[c], client[c].buffer, downlink[c], server.sent)

\* The inductive invariant.
SocketInv == Types /\ \A c \in Clients : InOrder(c)

\* Taking the head of a queue in order.
LEMMA TakeInOrder ==
    ASSUME NEW T, NEW q \in Seq(T), q # <<>>, Increasing(q)
    PROVE  /\ Elements(q) = {Head(q)} \cup Elements(Tail(q))
           /\ AllBefore({Head(q)}, Elements(Tail(q)))
           /\ Increasing(Tail(q))
<1> DEFINE n == Len(q)
           t == Tail(q)
<1>1. n \in Nat /\ DOMAIN q = 1..n
  BY LenProperties
<1>2. /\ t \in Seq(T) /\ Len(t) = n - 1
      /\ \A k \in 1..n - 1 : t[k] = q[k + 1]
  BY HeadTailProperties
<1>3. DOMAIN t = 1..n - 1
  BY <1>2, LenProperties
<1>4. n >= 1 /\ Head(q) = q[1]
  BY <1>1, EmptySeq
<1>. HIDE DEF n, t
<1>5. /\ \A k \in 1..n : k = 1 \/ (k - 1 \in 1..n - 1 /\ (k - 1) + 1 = k)
      /\ 1 \in 1..n /\ \A k \in 1..n - 1 : k + 1 \in 1..n /\ 1 < k + 1
      /\ \A j, k \in 1..n - 1 : j < k => j + 1 < k + 1
  BY <1>1, <1>4
<1>6. ASSUME NEW k \in 1..n
      PROVE  q[k] \in {Head(q)} \cup Elements(t)
  <2>1. k = 1 \/ (k - 1 \in DOMAIN t /\ t[k - 1] = q[k])
    BY <1>2, <1>3, <1>5
  <2>. QED  BY <1>4, <2>1 DEF Elements
<1>7. {Head(q)} \cup Elements(t) \subseteq Elements(q)
  BY <1>1, <1>2, <1>3, <1>4, <1>5 DEF Elements
<1>8. Elements(q) \subseteq {Head(q)} \cup Elements(t)
  BY <1>1, <1>6 DEF Elements
<1>9. AllBefore({Head(q)}, Elements(t))
  <2>1. \A k \in DOMAIN t : Before(q[1], q[k + 1])
    BY <1>1, <1>3, <1>5 DEF Increasing
  <2>. QED  BY <1>2, <1>3, <1>4, <2>1 DEF AllBefore, Elements
<1>10. Increasing(t)
  <2>1. \A j, k \in DOMAIN t : j < k => Before(q[j + 1], q[k + 1])
    BY <1>1, <1>3, <1>5 DEF Increasing
  <2>. QED  BY <1>2, <1>3, <2>1 DEF Increasing
<1>. QED  BY <1>7, <1>8, <1>9, <1>10 DEF t

\* Adding a message that was sent after all others.
LEMMA AddInOrder ==
    ASSUME NEW T, NEW q \in Seq(T), NEW x \in T, Increasing(q),
           AllBefore(Elements(q), {x})
    PROVE  /\ Elements(Append(q, x)) = Elements(q) \cup {x}
           /\ Increasing(Append(q, x))
<1> DEFINE n == Len(q)
           a == Append(q, x)
<1>1. n \in Nat /\ DOMAIN q = 1..n
  BY LenProperties
<1>2. /\ a \in Seq(T) /\ Len(a) = n + 1 /\ a[n + 1] = x
      /\ \A k \in 1..n : a[k] = q[k]
  BY AppendProperties
<1>3. DOMAIN a = 1..n + 1
  BY <1>2, LenProperties
<1>. HIDE DEF n, a
<1>4. /\ \A k \in DOMAIN a : k \in 1..n \/ k = n + 1
      /\ n + 1 \in DOMAIN a /\ 1..n \subseteq DOMAIN a
      /\ \A j, k \in DOMAIN a : j < k => j \in 1..n
  BY <1>1, <1>3
<1>5. Elements(a) = Elements(q) \cup {x}
  BY <1>1, <1>2, <1>4 DEF Elements
<1>6. ASSUME NEW j \in DOMAIN a, NEW k \in DOMAIN a, j < k
      PROVE  Before(a[j], a[k])
  <2>1. j \in DOMAIN q /\ a[j] = q[j] /\ q[j] \in Elements(q)
    BY <1>1, <1>2, <1>4, <1>6 DEF Elements
  <2>2. CASE k \in 1..n
    BY <1>1, <1>2, <1>6, <2>1, <2>2 DEF Increasing
  <2>3. CASE k = n + 1
    BY <1>2, <2>1, <2>3 DEF AllBefore
  <2>. QED  BY <1>4, <2>2, <2>3
<1>. QED  BY <1>5, <1>6 DEF Increasing, a

\* What a call, a datagram or the loss of one does to what a client has.
LEMMA OrderMoves ==
    ASSUME NEW R, NEW b \in Nat, NEW q \in Seq(Nat), NEW n \in Nat,
           Ordered(R, b, q, n)
    PROVE  /\ Ordered(R, NoMessage, q, n)
           /\ b # NoMessage => Ordered(R \cup {b}, NoMessage, q, n)
           /\ q # << >> => /\ Ordered(R, Head(q), Tail(q), n)
                          /\ Ordered(R, b, Tail(q), n)
           /\ Ordered(R, b, q, n + 1)
           /\ \A x \in {NoMessage, n + 1} : Ordered(R, b, Append(q, x), n + 1)
<1>1. Ordered(R, NoMessage, q, n)
  BY DEF Ordered, AllBefore, Before, NoMessage
<1>2. ASSUME b # NoMessage PROVE Ordered(R \cup {b}, NoMessage, q, n)
  BY <1>2 DEF Ordered, AllBefore, Before, NoMessage
<1>3. ASSUME q # << >>
      PROVE  Ordered(R, Head(q), Tail(q), n) /\ Ordered(R, b, Tail(q), n)
  <2>1. Increasing(q)
    BY DEF Ordered
  <2>2. /\ Elements(q) = {Head(q)} \cup Elements(Tail(q))
        /\ AllBefore({Head(q)}, Elements(Tail(q)))
        /\ Increasing(Tail(q))
    BY <1>3, <2>1, TakeInOrder
  <2>. DEFINE h == Head(q)
              t == Tail(q)
  <2>. HIDE DEF h, t
  <2>3. Elements(q) = {h} \cup Elements(t) /\ AllBefore({h}, Elements(t))
        /\ Increasing(t)
    BY <2>2 DEF h, t
  <2>4. Ordered(R, h, t, n) /\ Ordered(R, b, t, n)
    BY <2>3 DEF Ordered, AllBefore
  <2>. QED  BY <2>4 DEF h, t
<1>4. Ordered(R, b, q, n + 1)
  BY DEF Ordered
<1>5. ASSUME NEW x \in {NoMessage, n + 1}
      PROVE  Ordered(R, b, Append(q, x), n + 1)
  <2>1. x \in Nat /\ x <= n + 1
    BY DEF NoMessage
  <2>2. AllBefore(R \cup {b} \cup Elements(q), {x})
    BY DEF Ordered, AllBefore, Before, NoMessage
  <2>3. Increasing(q) /\ AllBefore(Elements(q), {x})
    BY <2>2 DEF Ordered, AllBefore
  <2>4. /\ Elements(Append(q, x)) = Elements(q) \cup {x}
        /\ Increasing(Append(q, x))
    BY <2>1, <2>3, AddInOrder
  <2>. DEFINE a == Append(q, x)
  <2>. HIDE DEF a
  <2>5. Elements(a) = Elements(q) \cup {x} /\ Increasing(a)
    BY <2>4 DEF a
  <2>6. Ordered(R, b, a, n + 1)
    BY <1>4, <2>1, <2>2, <2>5 DEF Ordered, AllBefore
  <2>. QED  BY <2>6 DEF a
<1>. QED  BY <1>1, <1>2, <1>3, <1>4, <1>5

\* No message is about when the sockets are opened.
LEMMA InitOrder == Init => SocketInv
<1> SUFFICES ASSUME Init PROVE SocketInv
  OBVIOUS
<1>1. timeval(60000) \in [tv_sec : Int, tv_usec : Int]
  BY DEF timeval
<1>2. Types
  BY <1>1 DEF Init, Types, ClientStates, ServerStates, NoMessage
<1>3. ASSUME NEW c \in Clients PROVE InOrder(c)
  <2>1. /\ read[c] = {} /\ downlink[c] = << >> /\ client[c].buffer = NoMessage
        /\ server.sent = 0
    BY DEF Init
  <2>2. Elements(<< >>) = {} /\ Increasing(<< >>)
    BY DEF Elements, Increasing
  <2>. QED  BY <2>1, <2>2 DEF InOrder, Ordered, AllBefore, NoMessage
<1>. QED  BY <1>2, <1>3 DEF SocketInv

\* Every call and every datagram keeps the order.
LEMMA NextOrder == SocketInv /\ [Next]_vars => SocketInv'
<1> SUFFICES ASSUME SocketInv, [Next]_vars
             PROVE  SocketInv'
  OBVIOUS
<1>0. Types /\ \A c \in Clients : InOrder(c)
  BY DEF SocketInv
<1>t. \A t \in Nat : timeval(t) \in [tv_sec : Int, tv_usec : Int]
  BY DEF timeval
<1>m. ASSUME NEW d \in Clients
      PROVE  /\ client[d] \in ClientStates
             /\ client[d].buffer \in Nat /\ downlink[d] \in Seq(Nat)
             /\ server.sent \in Nat /\ read[d] \in SUBSET Nat
             /\ Ordered(read[d], client[d].buffer, downlink[d], server.sent)
  BY <1>0 DEF Types, ClientStates, ServerStates, InOrder
<1>1. ASSUME NEW c \in Clients, NEW flag \in BOOLEAN,
             sgfx_client_set_reception(c, flag)
      PROVE  SocketInv'
  <2> DEFINE new == [client[c] EXCEPT !.expects_ack = flag]
  <2>1. new \in ClientStates /\ new.buffer = client[c].buffer
    BY <1>m DEF ClientStates
  <2>2. client' = [client EXCEPT ![c] = new]
    BY <1>1 DEF sgfx_client_set_reception
  <2>. HIDE DEF new
  <2>3. client' \in [Clients -> ClientStates]
        /\ \A d \in Clients : client'[d].buffer = client[d].buffer
    BY <1>0, <2>1, <2>2 DEF Types
  <2>. QED  BY <1>0, <1>1, <2>3
            DEF sgfx_client_set_reception, SocketInv, Types, InOrder
<1>2. ASSUME NEW c \in Clients, NEW t \in Timeouts, sgfx_client_set_timeout(c, t)
      PROVE  SocketInv'
  <2> DEFINE new == [client[c] EXCEPT !.timeout = t, !.rcvtimeo = timeval(t)]
  <2>1. t \in Nat /\ timeval(t) \in [tv_sec : Int, tv_usec : Int]
    BY <1>t, SocketAssumption
  <2>2. new \in ClientStates /\ new.buffer = client[c].buffer
    BY <1>m, <2>1 DEF ClientStates
  <2>3. client' = [client EXCEPT ![c] = new]
    BY <1>0, <1>2 DEF sgfx_client_set_timeout, Types
  <2>. HIDE DEF new
  <2>4. client' \in [Clients -> ClientStates]
        /\ \A d \in Clients : client'[d].buffer = client[d].buffer
    BY <1>0, <2>2, <2>3 DEF Types
  <2>. QED  BY <1>0, <1>2, <2>4
            DEF sgfx_client_set_timeout, SocketInv, Types, InOrder
<1>3. ASSUME NEW c \in Clients, NEW sent \in BOOLEAN, Sendto(c, sent)
      PROVE  SocketInv'
  <2>1. uplink' \in Seq(Clients)
    BY <1>0, <1>3 DEF Sendto, Types
  <2> DEFINE buf == IF client[c].expects_ack THEN NoMessage ELSE client[c].buffer
             n == client[c].seqnum + 1
             e == client[c].expects_ack
             new == [client[c] EXCEPT !.seqnum = n, !.waiting = e, !.buffer = buf]
  <2>2. n \in Nat /\ e \in BOOLEAN /\ buf \in Nat
        /\ (buf = client[c].buffer \/ buf = NoMessage)
    BY <1>m DEF ClientStates, NoMessage
  <2>3. client' = [client EXCEPT ![c] = new]
    BY <1>0, <1>3 DEF Sendto, Types
  <2>. HIDE DEF buf, n, e
  <2>4. new \in ClientStates /\ new.buffer = buf
    BY <1>m, <2>2 DEF ClientStates
  <2>. HIDE DEF new
  <2>5. client' \in [Clients -> ClientStates]
        /\ \A d \in Clients : client'[d].buffer = client[d].buffer
                               \/ client'[d].buffer = NoMessage
    BY <1>0, <2>2, <2>3, <2>4 DEF Types
  <2>6. /\ UNCHANGED <<server, downlink, read>>
    BY <1>3 DEF Sendto
  <2>7. ASSUME NEW d \in Clients PROVE InOrder(d)'
    <3>1. /\ Ordered(read[d], client[d].buffer, downlink[d], server.sent)
          /\ Ordered(read[d], NoMessage, downlink[d], server.sent)
      BY <1>m, OrderMoves
    <3>. QED  BY <2>5, <2>6, <3>1 DEF InOrder
  <2>. QED  BY <1>0, <2>1, <2>5, <2>6, <2>7 DEF SocketInv, Types
<1>4. ASSUME NEW c \in Clients, RecvfromReturns(c)
      PROVE  SocketInv'
  <2>1. /\ downlink[c] # << >> /\ UNCHANGED <<server, uplink, read>>
        /\ downlink' = [downlink EXCEPT ![c] = Tail(downlink[c])]
    BY <1>4 DEF RecvfromReturns
  <2>2. Head(downlink[c]) \in Nat /\ Tail(downlink[c]) \in Seq(Nat)
    BY <1>m, <2>1, HeadTailProperties
  <2>3. Ordered(read[c], Head(downlink[c]), Tail(downlink[c]), server.sent)
    BY <1>m, <2>1, OrderMoves
  <2> DEFINE h == Head(downlink[c])
             new == [client[c] EXCEPT !.waiting = FALSE, !.buffer = h]
  <2>4. client' = [client EXCEPT ![c] = new]
    BY <1>0, <1>4 DEF RecvfromReturns, Types
  <2>. HIDE DEF h
  <2>5. new \in ClientStates /\ new.buffer = h
    BY <1>m, <2>2 DEF ClientStates, h
  <2>. HIDE DEF new
  <2>6. client' \in [Clients -> ClientStates]
        /\ \A d \in Clients : client'[d].buffer = IF d = c THEN h
                                                          ELSE client[d].buffer
    BY <1>0, <2>4, <2>5 DEF Types
  <2>7. downlink' \in [Clients -> Seq(Nat)]
    BY <1>0, <2>1, <2>2 DEF Types
  <2>8. ASSUME NEW d \in Clients PROVE InOrder(d)'
    <3>1. CASE d = c
      BY <1>0, <2>1, <2>3, <2>6, <3>1 DEF InOrder, Types, h
    <3>2. CASE d # c
      BY <1>0, <1>m, <2>1, <2>6, <3>2 DEF InOrder, Types
    <3>. QED  BY <3>1, <3>2
  <2>. QED  BY <1>0, <2>1, <2>6, <2>7, <2>8 DEF SocketInv, Types
<1>5. ASSUME NEW c \in Clients, RecvfromExpires(c)
      PROVE  SocketInv'
  <2> DEFINE new == [client[c] EXCEPT !.waiting = FALSE]
  <2>1. new \in ClientStates /\ new.buffer = client[c].buffer
    BY <1>m DEF ClientStates
  <2>2. client' = [client EXCEPT ![c] = new]
    BY <1>5 DEF RecvfromExpires
  <2>. HIDE DEF new
  <2>3. client' \in [Clients -> ClientStates]
        /\ \A d \in Clients : client'[d].buffer = client[d].buffer
    BY <1>0, <2>1, <2>2 DEF Types
  <2>. QED  BY <1>0, <1>5, <2>3 DEF RecvfromExpires, SocketInv, Types, InOrder
<1>6. ASSUME NEW c \in Clients, sgfx_client_recv(c)
      PROVE  SocketInv'
  <2>1. /\ client[c].buffer # NoMessage /\ UNCHANGED <<server, uplink, downlink>>
        /\ read' = [read EXCEPT ![c] = read[c] \cup {client[c].buffer}]
    BY <1>6 DEF sgfx_client_recv
  <2>2. Ordered(read[c] \cup {client[c].buffer}, NoMessage, downlink[c], server.sent)
    BY <1>m, <2>1, OrderMoves
  <2> DEFINE new == [client[c] EXCEPT !.buffer = NoMessage]
  <2>3. new \in ClientStates /\ new.buffer = NoMessage
    BY <1>m DEF ClientStates, NoMessage
  <2>4. client' = [client EXCEPT ![c] = new]
    BY <1>6 DEF sgfx_client_recv
  <2>. HIDE DEF new
  <2>5. client' \in [Clients -> ClientStates]
        /\ \A d \in Clients : client'[d].buffer = IF d = c THEN NoMessage
                                                          ELSE client[d].buffer
    BY <1>0, <2>3, <2>4 DEF Types
  <2>6. read' \in [Clients -> SUBSET Nat]
    BY <1>0, <1>m, <2>1 DEF Types
  <2>7. ASSUME NEW d \in Clients PROVE InOrder(d)'
    <3>1. CASE d = c
      BY <1>0, <2>1, <2>2, <2>5, <3>1 DEF InOrder, Types
    <3>2. CASE d # c
      BY <1>0, <1>m, <2>1, <2>5, <3>2 DEF InOrder, Types
    <3>. QED  BY <3>1, <3>2
  <2>. QED  BY <1>0, <2>1, <2>5, <2>6, <2>7 DEF SocketInv, Types
<1>7. CASE sgfx_server_recv
  <2>1. Head(uplink) \in Clients /\ Tail(uplink) \in Seq(Clients)
    BY <1>0, <1>7, HeadTailProperties DEF sgfx_server_recv, Types
  <2>2. server' \in ServerStates /\ server'.sent = server.sent
    BY <1>0, <1>7, <2>1 DEF sgfx_server_recv, Types, ServerStates
  <2>. QED  BY <1>0, <1>7, <2>1, <2>2 DEF sgfx_server_recv, SocketInv, Types, InOrder
<1>8. ASSUME NEW zeros \in BOOLEAN, sgfx_server_send(zeros)
      PROVE  SocketInv'
  <2>0. PICK a \in Clients : a = server.cli_addr
    BY <1>0, <1>8 DEF sgfx_server_send, Types, ServerStates
  <2> DEFINE n == server.sent
             x == IF zeros THEN NoMessage ELSE n + 1
  <2>1. n \in Nat /\ x \in {NoMessage, n + 1} /\ x \in Nat
    BY <1>m, <2>0 DEF NoMessage
  <2>2. /\ UNCHANGED <<client, uplink, read>>
        /\ downlink' = [downlink EXCEPT ![a] = Append(downlink[a], x)]
        /\ server' \in ServerStates /\ server'.sent = n + 1
    <3>1. UNCHANGED <<client, uplink, read>>
      BY <1>8 DEF sgfx_server_send
    <3>2. downlink' = [downlink EXCEPT ![a] = Append(downlink[a], x)]
      BY <1>0, <1>8, <2>0, Zenon DEF sgfx_server_send
    <3>3. server' = [server EXCEPT !.sent = n + 1]
      BY <1>8, Zenon DEF sgfx_server_send
    <3>4. server' \in ServerStates /\ server'.sent = n + 1
      <4>1. n + 1 \in Nat
        BY <2>1
      <4>. HIDE DEF n
      <4>. QED  BY <1>0, <3>3, <4>1 DEF Types, ServerStates
    <3>. QED  BY <3>1, <3>2, <3>4
  <2>. HIDE DEF n, x
  <2>3. ASSUME NEW d \in Clients
        PROVE  /\ Ordered(read[d], client[d].buffer, downlink[d], n + 1)
               /\ Ordered(read[d], client[d].buffer, Append(downlink[d], x), n + 1)
    <3>1. /\ client[d].buffer \in Nat /\ downlink[d] \in Seq(Nat)
          /\ Ordered(read[d], client[d].buffer, downlink[d], n)
      BY <1>m DEF n
    <3>. QED  BY <2>1, <3>1, OrderMoves
  <2>4. ASSUME NEW d \in Clients PROVE InOrder(d)'
    <3>1. CASE d = a
      BY <1>0, <2>2, <2>3, <3>1 DEF InOrder, Types
    <3>2. CASE d # a
      BY <1>0, <2>2, <2>3, <3>2 DEF InOrder, Types
    <3>. QED  BY <3>1, <3>2
  <2>5. downlink' \in [Clients -> Seq(Nat)]
    BY <1>0, <1>m, <2>1, <2>2, AppendProperties DEF Types
  <2>. QED  BY <1>0, <2>2, <2>4, <2>5 DEF SocketInv, Types
<1>9. CASE LoseUplink
  <2>1. Tail(uplink) \in Seq(Clients)
    BY <1>0, <1>9, HeadTailProperties DEF LoseUplink, Types
  <2>. QED  BY <1>0, <1>9, <2>1 DEF LoseUplink, SocketInv, Types, InOrder
<1>10. ASSUME NEW c \in Clients, LoseDownlink(c)
       PROVE  SocketInv'
  <2>1. /\ downlink[c] # << >> /\ UNCHANGED <<client, server, uplink, read>>
        /\ downlink' = [downlink EXCEPT ![c] = Tail(downlink[c])]
    BY <1>10 DEF LoseDownlink
  <2>2. Tail(downlink[c]) \in Seq(Nat)
    BY <1>m, <2>1, HeadTailProperties
  <2>3. Ordered(read[c], client[c].buffer, Tail(downlink[c]), server.sent)
    BY <1>m, <2>1, OrderMoves
  <2>4. downlink' \in [Clients -> Seq(Nat)]
    BY <1>0, <2>1, <2>2 DEF Types
  <2>5. ASSUME NEW d \in Clients PROVE InOrder(d)'
    <3>1. CASE d = c
      BY <1>0, <2>1, <2>3, <3>1 DEF InOrder, Types
    <3>2. CASE d # c
      BY <1>0, <1>m, <2>1, <3>2 DEF InOrder, Types
    <3>. QED  BY <3>1, <3>2
  <2>. QED  BY <1>0, <2>1, <2>4, <2>5 DEF SocketInv, Types
<1>11. CASE UNCHANGED vars
  BY <1>0, <1>11 DEF vars, SocketInv, Types, InOrder
<1>. QED  BY <1>1, <1>2, <1>3, <1>4, <1>5, <1>6, <1>7, <1>8, <1>9, <1>10, <1>11
          DEF Next, Wait

\* No answer is handed out twice, or waits to be: what was read is older than all
\* that is buffered or still in the socket, whatever was lost, timed out or never
\* read, and however often the server has sent, for any number of clients.
THEOREM AnswersAreReadOnce == Spec => []ReadOnce
<1>1. SocketInv => ReadOnce
  <2> SUFFICES ASSUME SocketInv, NEW c \in Clients,
                      NEW m \in Answers(c), m \in read[c]
               PROVE  FALSE
    BY DEF ReadOnce
  <2>1. Ordered(read[c], client[c].buffer, downlink[c], server.sent)
    BY DEF SocketInv, InOrder
  <2>2. m \in {client[c].buffer} \cup Elements(downlink[c]) /\ m # NoMessage
    BY DEF Answers, Elements
  <2>3. m \in Nat /\ Before(m, m)
    BY <2>1, <2>2 DEF Ordered, AllBefore
  <2>. QED  BY <2>2, <2>3 DEF Before
<1>2. SocketInv /\ [Next]_vars => SocketInv'
  BY NextOrder
<1>. QED  BY InitOrder, <1>1, <1>2, PTL DEF Spec
=============================================================================
