------------------------ MODULE ControlArbiterProofs ------------------------
(***************************************************************************)
(* Proofs about ControlArbiter, for any set of clients and any number of   *)
(* command lines per recv(): its types, its queue and its lock, and what   *)
(* it promises to its clients.  It implements ControlLock, a SET is at the *)
(* radio only for the controller, and a dropped client holds nothing until *)
(* it asks again, which a line behind QUIT can.                            *)
(***************************************************************************)
EXTENDS ControlArbiter, SequenceLemmas

\* The state of the lock alone, as its lemmas use it.
LockOK ==
    /\ m_controller \in Clients \cup {NoClient}
    /\ m_control_queue \in Seq(Clients)
    /\ QueueOK

\* The three ways the queue changes.
LEMMA QueueOps ==
    ASSUME NEW q \in Seq(Clients), Distinct(q)
    PROVE  /\ \A c \in Clients : ~ Contains(q, c) =>
                /\ Append(q, c) \in Seq(Clients)
                /\ Distinct(Append(q, c))
                /\ \A d \in Clients : Contains(Append(q, c), d) <=> Contains(q, d) \/ d = c
           /\ q # <<>> =>
                /\ Tail(q) \in Seq(Clients)
                /\ Distinct(Tail(q))
                /\ Head(q) \in Clients /\ Contains(q, Head(q))
                /\ \A d \in Clients : Contains(Tail(q), d) <=> Contains(q, d) /\ d # Head(q)
           /\ \A c \in Clients :
                /\ RemoveFirst(q, c) \in Seq(Clients)
                /\ Distinct(RemoveFirst(q, c))
                /\ \A d \in Clients : Contains(RemoveFirst(q, c), d) <=> Contains(q, d) /\ d # c
<1>1. ASSUME NEW c \in Clients, ~ Contains(q, c)
      PROVE  /\ Append(q, c) \in Seq(Clients)
             /\ Distinct(Append(q, c))
             /\ \A d \in Clients : Contains(Append(q, c), d) <=> Contains(q, d) \/ d = c
  BY <1>1, AppendProperties DEF Distinct, Contains
<1>2. ASSUME q # <<>>
      PROVE  /\ Tail(q) \in Seq(Clients)
             /\ Distinct(Tail(q))
             /\ Head(q) \in Clients /\ Contains(q, Head(q))
             /\ \A d \in Clients : Contains(Tail(q), d) <=> Contains(q, d) /\ d # Head(q)
  <2>1. /\ Tail(q) \in Seq(Clients) /\ Len(q) \in Nat \ {0} /\ Head(q) = q[1]
        /\ Len(Tail(q)) = Len(q) - 1
        /\ \A j \in 1 .. Len(q) - 1 : Tail(q)[j] = q[j + 1]
    BY <1>2
  <2>2. Head(q) \in Clients /\ Contains(q, Head(q))
    BY <2>1 DEF Contains
  <2>3. Distinct(Tail(q))
    BY <2>1 DEF Distinct
  <2>4. ASSUME NEW d \in Clients
        PROVE  Contains(Tail(q), d) <=> Contains(q, d) /\ d # Head(q)
    <3>1. ASSUME Contains(Tail(q), d) PROVE Contains(q, d) /\ d # Head(q)
      BY <2>1, <3>1 DEF Contains, Distinct
    <3>2. ASSUME Contains(q, d), d # Head(q) PROVE Contains(Tail(q), d)
      <4>1. PICK j \in 2 .. Len(q) : q[j] = d
        BY <2>1, <3>2 DEF Contains
      <4>2. j - 1 \in 1 .. Len(q) - 1 /\ (j - 1) + 1 = j
        BY <2>1, <4>1
      <4>3. Tail(q)[j - 1] = d
        BY <2>1, <4>1, <4>2
      <4>4. QED
        BY <2>1, <4>2, <4>3 DEF Contains
    <3>3. QED
      BY <3>1, <3>2
  <2>5. QED
    BY <2>1, <2>2, <2>3, <2>4
<1>3. ASSUME NEW c \in Clients
      PROVE  /\ RemoveFirst(q, c) \in Seq(Clients)
             /\ Distinct(RemoveFirst(q, c))
             /\ \A d \in Clients : Contains(RemoveFirst(q, c), d) <=> Contains(q, d) /\ d # c
  BY RemovedFacts
<1>4. QED
  BY <1>1, <1>2, <1>3

LEMMA QueueIsDistinct ==
    ASSUME LockOK
    PROVE  /\ Distinct(m_control_queue)
           /\ \A c \in Clients : IsWaitingForControl(c) => ~ HasControl(c)
           /\ m_controller = NoClient => m_control_queue = <<>>
BY DEF LockOK, QueueOK, Distinct, IsWaitingForControl, HasControl, Contains

LEMMA LockIsOK ==
    ASSUME NEW h \in Clients \cup {NoClient}, NEW q \in Seq(Clients),
           Distinct(q), ~ Contains(q, h), h = NoClient => q = <<>>,
           m_controller' = h, m_control_queue' = q
    PROVE  LockOK'
BY DEF LockOK, QueueOK, Distinct, Contains

\* AcquireControl(c) changes nothing for the other clients, and tells c
\* the truth.
LEMMA AcquireFacts ==
    ASSUME LockOK, NEW c \in Clients, AcquireControl(c)
    PROVE  /\ LockOK'
           /\ \A d \in Clients \ {c} :
                /\ HasControl(d)' <=> HasControl(d)
                /\ IsWaitingForControl(d)' <=> IsWaitingForControl(d)
           /\ \/ Reply(c, "ACQUIRED") /\ HasControl(c)'
              \/ Reply(c, "PENDING") /\ IsWaitingForControl(c)'
<1> USE ClientsAssumption
<1>0. /\ m_control_queue \in Seq(Clients) /\ m_controller \in Clients \cup {NoClient}
      /\ Distinct(m_control_queue)
      /\ ~ Contains(m_control_queue, m_controller)
      /\ m_controller = NoClient => m_control_queue = <<>>
  BY QueueIsDistinct DEF LockOK, IsWaitingForControl, HasControl, Contains
<1>1. CASE /\ m_controller = NoClient /\ m_control_queue = <<>>
           /\ m_controller' = c /\ m_control_queue' = m_control_queue
           /\ Reply(c, "ACQUIRED")
  <2>1. ~ Contains(m_control_queue, c)
    BY <1>1 DEF Contains
  <2>2. LockOK'
    BY <1>0, <1>1, <2>1, LockIsOK
  <2>3. QED
    BY <1>1, <2>2 DEF HasControl, IsWaitingForControl
<1>2. CASE HasControl(c) /\ UNCHANGED lockVars /\ Reply(c, "ACQUIRED")
  <2>1. LockOK'
    BY <1>0, <1>2, LockIsOK DEF lockVars
  <2>2. QED
    BY <1>2, <2>1 DEF HasControl, IsWaitingForControl, lockVars
<1>3. CASE /\ ~ (m_controller = NoClient /\ m_control_queue = <<>>)
           /\ ~ HasControl(c)
           /\ m_control_queue' = IF IsWaitingForControl(c) THEN m_control_queue
                                 ELSE Append(m_control_queue, c)
           /\ m_controller' = m_controller
           /\ Reply(c, "PENDING")
  <2>1. CASE IsWaitingForControl(c)
    <3>1. LockOK'
      BY <1>0, <1>3, <2>1, LockIsOK
    <3>2. QED
      BY <1>3, <2>1, <3>1 DEF HasControl, IsWaitingForControl
  <2>2. CASE ~ IsWaitingForControl(c)
    <3>1. PICK q : q = Append(m_control_queue, c)
      OBVIOUS
    <3>2. /\ q \in Seq(Clients) /\ Distinct(q)
          /\ \A d \in Clients : Contains(q, d) <=> Contains(m_control_queue, d) \/ d = c
      BY <1>0, <2>2, <3>1, QueueOps DEF IsWaitingForControl
    <3>3. m_controller \in Clients /\ ~ Contains(q, m_controller)
      BY <1>0, <1>3, <3>2 DEF HasControl
    <3>4. m_control_queue' = q
      BY <1>3, <2>2, <3>1
    <3>5. LockOK'
      BY <1>0, <1>3, <3>2, <3>3, <3>4, LockIsOK
    <3>6. QED
      BY <1>3, <3>2, <3>4, <3>5 DEF HasControl, IsWaitingForControl
  <2>3. QED
    BY <2>1, <2>2
<1>4. QED
  BY <1>1, <1>2, <1>3 DEF AcquireControl, lockVars

\* ReleaseControl(c) takes everything from c, gives control to the heir, a
\* client that waited, and changes nothing for the others.
LEMMA ReleaseFacts ==
    ASSUME LockOK, NEW c \in Clients, ReleaseControl(c)
    PROVE  /\ LockOK'
           /\ ~ HasControl(c)' /\ ~ IsWaitingForControl(c)'
           /\ Heir(c) \subseteq Clients \ {c}
           /\ \A d \in Heir(c) : IsWaitingForControl(d) /\ HasControl(d)'
           /\ \A d \in Clients \ {c} : d \notin Heir(c) =>
                /\ HasControl(d)' <=> HasControl(d)
                /\ IsWaitingForControl(d)' <=> IsWaitingForControl(d)
<1> USE ClientsAssumption
<1>0. /\ m_control_queue \in Seq(Clients) /\ m_controller \in Clients \cup {NoClient}
      /\ Distinct(m_control_queue)
      /\ ~ Contains(m_control_queue, m_controller)
      /\ m_controller = NoClient => m_control_queue = <<>>
  BY QueueIsDistinct DEF LockOK, IsWaitingForControl, HasControl, Contains
<1>1. CASE /\ HasControl(c) /\ m_control_queue = <<>>
           /\ m_controller' = NoClient /\ m_control_queue' = m_control_queue
  <2>1. \A d : ~ Contains(m_control_queue, d)
    BY <1>1 DEF Contains
  <2>2. LockOK'
    BY <1>0, <1>1, <2>1, LockIsOK
  <2>3. QED
    BY <1>0, <1>1, <2>1, <2>2 DEF HasControl, IsWaitingForControl, Heir
<1>2. CASE /\ HasControl(c) /\ m_control_queue # <<>>
           /\ m_controller' = Head(m_control_queue)
           /\ m_control_queue' = Tail(m_control_queue)
  <2>1. PICK h, q : h = Head(m_control_queue) /\ q = Tail(m_control_queue)
    OBVIOUS
  <2>2. /\ q \in Seq(Clients) /\ Distinct(q)
        /\ h \in Clients /\ Contains(m_control_queue, h)
        /\ \A d \in Clients : Contains(q, d) <=> Contains(m_control_queue, d) /\ d # h
    BY <1>0, <1>2, <2>1, QueueOps
  <2>3. LockOK'
    BY <1>2, <2>1, <2>2, LockIsOK
  <2>4. h # c /\ Heir(c) = {h} /\ ~ Contains(m_control_queue, c)
    BY <1>0, <1>2, <2>1, <2>2 DEF Heir, HasControl
  <2>5. QED
    BY <1>2, <2>1, <2>2, <2>3, <2>4 DEF HasControl, IsWaitingForControl
<1>3. CASE /\ ~ HasControl(c)
           /\ m_control_queue' = RemoveFirst(m_control_queue, c)
           /\ m_controller' = m_controller
  <2>1. PICK q : q = RemoveFirst(m_control_queue, c)
    OBVIOUS
  <2>2. /\ q \in Seq(Clients) /\ Distinct(q)
        /\ \A d \in Clients : Contains(q, d) <=> Contains(m_control_queue, d) /\ d # c
    BY <1>0, <2>1, QueueOps
  <2>3. m_controller = NoClient => q = <<>>
    <3>1. SUFFICES ASSUME m_controller = NoClient PROVE q = <<>>
      OBVIOUS
    <3>2. ~ Contains(m_control_queue, c)
      BY <1>0, <3>1 DEF Contains
    <3>3. QED
      BY <1>0, <2>1, <3>1, <3>2 DEF RemoveFirst, Contains
  <2>4. ~ Contains(q, m_controller)
    BY <1>0, <2>2, <2>3 DEF Contains
  <2>5. LockOK'
    BY <1>0, <1>3, <2>1, <2>2, <2>3, <2>4, LockIsOK
  <2>6. QED
    BY <1>3, <2>1, <2>2, <2>5 DEF HasControl, IsWaitingForControl, Heir
<1>4. QED
  BY <1>1, <1>2, <1>3 DEF ReleaseControl

\* What Send leaves in the histories.
LEMMA SendFacts ==
    ASSUME m_txbuf \in [Clients -> BOOLEAN], told \in [Clients -> Told],
           NEW msgs, NEW cleared, Send(msgs, cleared)
    PROVE  /\ m_txbuf' \in [Clients -> BOOLEAN]
           /\ told' \in [Clients -> Told]
           /\ \A d \in Clients :
                /\ d \in cleared => told'[d] = "NONE"
                /\ d \notin cleared /\ d \notin DOMAIN msgs => told'[d] = told[d]
                /\ d \notin cleared /\ IsDead(d) => told'[d] = told[d]
                /\ d \notin cleared /\ d \in DOMAIN msgs /\ msgs[d] \notin ControlMessages
                     => told'[d] = told[d]
                /\ d \notin cleared /\ ~ IsDead(d) /\ d \in DOMAIN msgs
                     /\ msgs[d] \in ControlMessages => told'[d] \in {msgs[d], "LOST"}
<1>1. PICK refused \in SUBSET {c \in DOMAIN msgs : m_txbuf[c]} :
        /\ m_txbuf' = [c \in Clients |-> \/ c \in DOMAIN msgs \ cleared
                                         \/ m_txbuf[c] /\ c \notin cleared]
        /\ told' = [c \in Clients |->
                      IF c \in cleared THEN "NONE"
                      ELSE IF \/ c \notin DOMAIN msgs \/ IsDead(c)
                              \/ msgs[c] \notin ControlMessages
                      THEN told[c]
                      ELSE IF c \in refused THEN "LOST" ELSE msgs[c]]
  BY DEF Send
<1>2. m_txbuf' \in [Clients -> BOOLEAN]
  BY <1>1
<1>3. told' \in [Clients -> Told]
  BY <1>1 DEF Told
<1>4. QED
  BY <1>1, <1>2, <1>3

-----------------------------------------------------------------------------
(* The inductive invariant.  ClientViewAccurate alone is not inductive: a  *)
(* step needs the queue to be in order (QueueOK), a client that connects   *)
(* must be unknown to the lock, which follows from HoldersAttached and     *)
(* AcceptedOnly, and must have been told nothing (DeadUntold).             *)

\* Only accepted clients are in the list.
AcceptedOnly == \A j \in 1 .. Len(m_clients) : m_sock[m_clients[j]] # "none"

\* Nothing is on record as told to a client without a connection.
DeadUntold == \A c \in Clients : IsDead(c) => told[c] = "NONE"

IInv ==
    /\ TypeOK
    /\ QueueOK
    /\ HoldersAttached
    /\ ClientViewAccurate
    /\ AcceptedOnly
    /\ DeadUntold

\* What the invariant says of one client, in the form the steps preserve.
ViewOK(c) ==
    /\ HasControl(c) \/ IsWaitingForControl(c) => Contains(m_clients, c)
    /\ told[c] = "ACQUIRED" => HasControl(c)
    /\ told[c] = "PENDING" => IsWaitingForControl(c)
    /\ ~ IsDead(c) /\ told[c] \in {"NONE", "RELEASED"} =>
         ~ HasControl(c) /\ ~ IsWaitingForControl(c)
    /\ IsDead(c) => told[c] = "NONE"
    /\ Contains(m_clients, c) => m_sock[c] # "none"

SockOK == m_sock \in [Clients -> {"none", "open", "closed", "freed"}]
BufOK  == m_txbuf \in [Clients -> BOOLEAN] /\ told \in [Clients -> Told]

\* The server thread's own variables and the list it walks.
LoopOK ==
    /\ m_clients \in Seq(Clients)
    /\ revived \subseteq Clients
    /\ pc \in {"select", "visit", "lines", "future", "transmit", "exit", "stopped"}
    /\ i \in 1 .. Len(m_clients) + 1
    /\ pc \in {"lines", "future", "transmit"} => i <= Len(m_clients)
    /\ pc \in {"exit", "stopped"} => i = 1
    /\ drop \in BOOLEAN
    /\ lines \in Seq(Lines)
    /\ asked \in {"none", "GET", "SET"}
    /\ m_shutdown \in BOOLEAN

LEMMA IInvParts ==
    IInv <=> LockOK /\ SockOK /\ BufOK /\ LoopOK /\ \A c \in Clients : ViewOK(c)
<1> USE ClientsAssumption
<1>1. ASSUME IInv
      PROVE  LockOK /\ SockOK /\ BufOK /\ LoopOK
  BY <1>1 DEF IInv, TypeOK, LockOK, SockOK, BufOK, LoopOK
<1>2. ASSUME IInv, NEW c \in Clients
      PROVE  ViewOK(c)
  <2>1. HasControl(c) \/ IsWaitingForControl(c) => Contains(m_clients, c)
    <3>1. ASSUME IsWaitingForControl(c) PROVE c \in ToSet(m_control_queue)
      BY <1>2, <3>1 DEF IsWaitingForControl, Contains, ToSet, IInv, TypeOK
    <3>2. ASSUME c \in ToSet(m_clients) PROVE Contains(m_clients, c)
      BY <1>2, <3>2 DEF Contains, ToSet, IInv, TypeOK
    <3>3. QED
      BY <1>2, <3>1, <3>2 DEF IInv, HoldersAttached, HasControl
  <2>2. Contains(m_clients, c) => m_sock[c] # "none"
    BY <1>2 DEF IInv, AcceptedOnly, Contains
  <2>3. QED
    BY <1>2, <2>1, <2>2 DEF IInv, ClientViewAccurate, DeadUntold, ViewOK
<1>3. ASSUME LockOK, SockOK, BufOK, LoopOK, \A c \in Clients : ViewOK(c)
      PROVE  IInv
  <2>1. TypeOK /\ QueueOK
    BY <1>3 DEF TypeOK, LockOK, SockOK, BufOK, LoopOK
  <2>2. HoldersAttached
    <3>1. m_controller # NoClient => Contains(m_clients, m_controller)
      BY <1>3, <2>1 DEF ViewOK, HasControl, TypeOK
    <3>2. ASSUME NEW c \in ToSet(m_control_queue) PROVE c \in ToSet(m_clients)
      <4>1. c \in Clients /\ IsWaitingForControl(c)
        <5>1. PICK k \in DOMAIN m_control_queue : c = m_control_queue[k]
          BY <3>2 DEF ToSet
        <5>2. m_control_queue \in Seq(Clients)
          BY <2>1 DEF TypeOK
        <5>3. k \in 1 .. Len(m_control_queue)
          BY <5>1, <5>2
        <5>4. c \in Clients
          BY <5>1, <5>2, <5>3
        <5>5. IsWaitingForControl(c)
          BY <5>1, <5>3 DEF IsWaitingForControl, Contains
        <5>6. QED
          BY <5>4, <5>5
      <4>2. Contains(m_clients, c)
        BY <1>3, <4>1 DEF ViewOK
      <4>3. QED
        BY <2>1, <4>2 DEF Contains, ToSet, TypeOK
    <3>3. QED
      BY <3>1, <3>2 DEF HoldersAttached
  <2>3. AcceptedOnly
    BY <1>3, <2>1 DEF AcceptedOnly, ViewOK, Contains, TypeOK
  <2>4. ClientViewAccurate /\ DeadUntold
    BY <1>3 DEF ClientViewAccurate, DeadUntold, ViewOK
  <2>5. QED
    BY <2>1, <2>2, <2>3, <2>4 DEF IInv
<1>4. QED
  BY <1>1, <1>2, <1>3

-----------------------------------------------------------------------------
(* One lemma per way in which a handler touches the lock and the clients.  *)

StateOK == LockOK /\ SockOK /\ BufOK /\ \A c \in Clients : ViewOK(c)

LEMMA QuietStep ==
    ASSUME StateOK, UNCHANGED <<m_sock, m_clients, lockVars>>,
           m_txbuf' \in [Clients -> BOOLEAN],
           told' \in [Clients -> Told], \A c \in Clients : told'[c] = told[c]
    PROVE  StateOK'
<1>1. LockOK' /\ SockOK' /\ BufOK'
  BY DEF StateOK, LockOK, QueueOK, SockOK, BufOK, lockVars
<1>2. ASSUME NEW c \in Clients PROVE ViewOK(c)'
  BY DEF StateOK, ViewOK, HasControl, IsWaitingForControl, IsDead, lockVars
<1>3. QED
  BY <1>1, <1>2 DEF StateOK

LEMMA ReplyStep ==
    ASSUME StateOK, UNCHANGED <<m_sock, m_clients, lockVars>>,
           NEW msgs, \A d \in DOMAIN msgs : msgs[d] \notin ControlMessages,
           Send(msgs, {})
    PROVE  StateOK'
BY SendFacts, QuietStep DEF StateOK, BufOK

LEMMA AcquireStep ==
    ASSUME StateOK, UNCHANGED <<m_sock, m_clients>>,
           NEW c \in Clients, Contains(m_clients, c), AcquireControl(c)
    PROVE  StateOK'
<1>1. /\ LockOK'
      /\ \A d \in Clients \ {c} :
           /\ HasControl(d)' <=> HasControl(d)
           /\ IsWaitingForControl(d)' <=> IsWaitingForControl(d)
  BY AcquireFacts DEF StateOK
<1>2. ASSUME NEW msg \in ControlMessages, Reply(c, msg)
      PROVE  /\ BufOK'
             /\ \A d \in Clients \ {c} : told'[d] = told[d]
             /\ IsDead(c) => told'[c] = told[c]
             /\ ~ IsDead(c) => told'[c] \in {msg, "LOST"}
  BY <1>2, SendFacts DEF StateOK, BufOK, Reply
<1>3. PICK msg \in {"ACQUIRED", "PENDING"} :
        /\ Reply(c, msg)
        /\ msg = "ACQUIRED" => HasControl(c)'
        /\ msg = "PENDING" => IsWaitingForControl(c)'
  BY AcquireFacts DEF StateOK
<1>4. /\ BufOK'
      /\ \A d \in Clients \ {c} : told'[d] = told[d]
      /\ IsDead(c) => told'[c] = told[c]
      /\ ~ IsDead(c) => told'[c] \in {msg, "LOST"}
  BY <1>2, <1>3 DEF ControlMessages
<1>5. ASSUME NEW d \in Clients, d # c PROVE ViewOK(d)'
  BY <1>1, <1>4, <1>5 DEF StateOK, ViewOK, IsDead
<1>6. ViewOK(c)'
  BY <1>3, <1>4 DEF StateOK, ViewOK, IsDead
<1>7. QED
  BY <1>1, <1>4, <1>5, <1>6 DEF StateOK, SockOK

LEMMA ReleaseStep ==
    ASSUME StateOK, UNCHANGED <<m_sock, m_clients>>,
           NEW c \in Clients, Contains(m_clients, c), ReleaseControl(c),
           Send([d \in Heir(c) \cup {c} |->
                   IF d = c THEN "RELEASED" ELSE "ACQUIRED"], {})
    PROVE  StateOK'
<1>1. /\ LockOK'
      /\ ~ HasControl(c)' /\ ~ IsWaitingForControl(c)'
      /\ Heir(c) \subseteq Clients \ {c}
      /\ \A d \in Heir(c) : IsWaitingForControl(d) /\ HasControl(d)'
      /\ \A d \in Clients \ {c} : d \notin Heir(c) =>
           /\ HasControl(d)' <=> HasControl(d)
           /\ IsWaitingForControl(d)' <=> IsWaitingForControl(d)
  BY ReleaseFacts DEF StateOK
<1>2. /\ BufOK'
      /\ \A d \in Clients :
           /\ d \notin Heir(c) \cup {c} => told'[d] = told[d]
           /\ IsDead(d) => told'[d] = told[d]
      /\ ~ IsDead(c) => told'[c] \in {"RELEASED", "LOST"}
      /\ \A d \in Heir(c) : ~ IsDead(d) => told'[d] \in {"ACQUIRED", "LOST"}
  <2> DEFINE msgs == [d \in Heir(c) \cup {c} |-> IF d = c THEN "RELEASED" ELSE "ACQUIRED"]
  <2>1. /\ DOMAIN msgs = Heir(c) \cup {c} /\ msgs[c] = "RELEASED"
        /\ \A d \in Heir(c) : msgs[d] = "ACQUIRED"
    BY <1>1
  <2>2. Send(msgs, {})
    OBVIOUS
  <2> HIDE DEF msgs
  <2>3. QED
    BY <1>1, <2>1, <2>2, SendFacts DEF StateOK, BufOK, ControlMessages
<1>3. ViewOK(c)'
  BY <1>1, <1>2 DEF StateOK, ViewOK, IsDead
<1>4. ASSUME NEW d \in Heir(c) PROVE ViewOK(d)'
  BY <1>1, <1>2, <1>4 DEF StateOK, ViewOK, IsDead
<1>5. ASSUME NEW d \in Clients, d # c, d \notin Heir(c) PROVE ViewOK(d)'
  BY <1>1, <1>2, <1>5 DEF StateOK, ViewOK, IsDead
<1>6. QED
  BY <1>1, <1>2, <1>3, <1>4, <1>5 DEF StateOK, SockOK

LEMMA DropStep ==
    ASSUME StateOK, NEW c \in Clients, NEW sock \in {"closed", "freed"},
           Drop(c, sock),
           \A d \in Clients \ {c} : Contains(m_clients, d)' <=> Contains(m_clients, d)
    PROVE  StateOK'
<1>1. /\ LockOK'
      /\ ~ HasControl(c)' /\ ~ IsWaitingForControl(c)'
      /\ Heir(c) \subseteq Clients \ {c}
      /\ \A d \in Heir(c) : IsWaitingForControl(d) /\ HasControl(d)'
      /\ \A d \in Clients \ {c} : d \notin Heir(c) =>
           /\ HasControl(d)' <=> HasControl(d)
           /\ IsWaitingForControl(d)' <=> IsWaitingForControl(d)
  BY ReleaseFacts DEF StateOK, Drop
<1>2. /\ BufOK'
      /\ told'[c] = "NONE"
      /\ \A d \in Clients \ {c} :
           /\ d \notin Heir(c) => told'[d] = told[d]
           /\ IsDead(d) => told'[d] = told[d]
      /\ \A d \in Heir(c) : ~ IsDead(d) => told'[d] \in {"ACQUIRED", "LOST"}
  <2> DEFINE msgs == [h \in Heir(c) |-> "ACQUIRED"]
  <2>1. DOMAIN msgs = Heir(c) /\ \A d \in Heir(c) : msgs[d] = "ACQUIRED"
    OBVIOUS
  <2>2. Send(msgs, {c})
    BY DEF Drop
  <2> HIDE DEF msgs
  <2>3. QED
    BY <1>1, <2>1, <2>2, SendFacts DEF StateOK, BufOK, ControlMessages
<1>3. m_sock' = [m_sock EXCEPT ![c] = sock] /\ SockOK'
  BY DEF Drop, StateOK, SockOK
<1>4. /\ m_sock'[c] = sock
      /\ \A d \in Clients \ {c} : m_sock'[d] = m_sock[d]
  BY <1>3 DEF StateOK, SockOK
<1>5. ViewOK(c)'
  BY <1>1, <1>2, <1>4 DEF ViewOK, IsDead
<1>6. ASSUME NEW d \in Heir(c) PROVE ViewOK(d)'
  BY <1>1, <1>2, <1>4, <1>6 DEF StateOK, ViewOK, IsDead
<1>7. ASSUME NEW d \in Clients, d # c, d \notin Heir(c) PROVE ViewOK(d)'
  BY <1>1, <1>2, <1>4, <1>7 DEF StateOK, ViewOK, IsDead
<1>8. QED
  BY <1>1, <1>2, <1>3, <1>5, <1>6, <1>7 DEF StateOK

LEMMA ConnectStep ==
    ASSUME StateOK, LoopOK, NEW c \in Clients, OnConnect(c)
    PROVE  StateOK'
<1>1. /\ m_sock[c] = "none"
      /\ m_sock' = [m_sock EXCEPT ![c] = "open"]
      /\ UNCHANGED <<lockVars, bufVars>>
  BY DEF OnConnect
<1>2. \A d \in Clients : Contains(m_clients, d)' <=> Contains(m_clients, d) \/ d = c
  BY AppendProperties DEF OnConnect, LoopOK, Contains
<1>3. LockOK' /\ BufOK' /\ SockOK'
  BY <1>1 DEF StateOK, LockOK, QueueOK, BufOK, SockOK, lockVars, bufVars
<1>4. /\ m_sock'[c] = "open"
      /\ \A d \in Clients \ {c} : m_sock'[d] = m_sock[d]
  BY <1>1 DEF StateOK, SockOK
<1>5. ViewOK(c)'
  BY <1>1, <1>2, <1>4 DEF StateOK, ViewOK, HasControl, IsWaitingForControl, IsDead, lockVars, bufVars
<1>6. ASSUME NEW d \in Clients, d # c PROVE ViewOK(d)'
  BY <1>1, <1>2, <1>4, <1>6 DEF StateOK, ViewOK, HasControl, IsWaitingForControl, IsDead, lockVars, bufVars
<1>7. QED
  BY <1>3, <1>5, <1>6 DEF StateOK

-----------------------------------------------------------------------------
(* The invariant is inductive.                                             *)

LEMMA CurrentIsClient ==
    ASSUME LoopOK, i <= Len(m_clients)
    PROVE  Current \in Clients /\ Contains(m_clients, Current)
BY DEF LoopOK, Current, Contains

\* Taking a client from the list leaves the others in it.
LEMMA ListWithout ==
    ASSUME NEW s \in Seq(Clients), NEW n \in 1 .. Len(s)
    PROVE  /\ RemoveAt(s, n) \in Seq(Clients)
           /\ Len(RemoveAt(s, n)) = Len(s) - 1
           /\ \A d \in Clients \ {s[n]} : Contains(RemoveAt(s, n), d) <=> Contains(s, d)
<1>1. PICK r : r = RemoveAt(s, n)
  OBVIOUS
<1>2. Len(s) \in Nat /\ n \in Nat
  OBVIOUS
<1>3. /\ r \in Seq(Clients) /\ Len(r) = Len(s) - 1
      /\ \A j \in 1 .. Len(s) - 1 : r[j] = IF j < n THEN s[j] ELSE s[j + 1]
  BY <1>1, RemoveAtFacts
<1>4. ASSUME NEW d \in Clients, d # s[n], Contains(s, d) PROVE Contains(r, d)
  <2>1. PICK k \in 1 .. Len(s) : s[k] = d /\ k # n
    BY <1>4 DEF Contains
  <2>2. CASE k < n
    BY <1>2, <1>3, <2>1, <2>2 DEF Contains
  <2>3. CASE k > n
    <3>1. k - 1 \in 1 .. Len(s) - 1 /\ ~ (k - 1 < n) /\ (k - 1) + 1 = k
      BY <1>2, <2>1, <2>3
    <3>2. r[k - 1] = d
      BY <1>3, <2>1, <3>1
    <3>3. QED
      BY <1>3, <3>1, <3>2 DEF Contains
  <2>4. QED
    BY <1>2, <2>1, <2>2, <2>3
<1>5. ASSUME NEW d \in Clients, Contains(r, d) PROVE Contains(s, d)
  BY <1>2, <1>3, <1>5 DEF Contains
<1>6. QED
  BY <1>1, <1>3, <1>4, <1>5

LEMMA InitIInv == Init => IInv
<1> SUFFICES ASSUME Init PROVE IInv
  OBVIOUS
<1> USE ClientsAssumption DEF Init
<1>1. LockOK /\ SockOK
  BY DEF LockOK, QueueOK, SockOK
<1>5. LoopOK
  <2>1. drop \in BOOLEAN /\ m_shutdown \in BOOLEAN
    BY Zenon
  <2>2. QED
    BY <2>1 DEF LoopOK
<1>2. BufOK
  BY DEF BufOK, Told
<1>3. ASSUME NEW c \in Clients PROVE ViewOK(c)
  BY DEF ViewOK, HasControl, IsWaitingForControl, IsDead, Contains
<1>4. QED
  BY <1>1, <1>2, <1>3, <1>5, IInvParts

LEMMA NextIInv == IInv /\ [Next]_vars => StateOK' /\ LoopOK'
<1> SUFFICES ASSUME IInv, [Next]_vars PROVE StateOK' /\ LoopOK'
  OBVIOUS
<1>0. StateOK /\ LoopOK
  BY IInvParts DEF StateOK
<1>a. m_txbuf \in [Clients -> BOOLEAN] /\ told \in [Clients -> Told]
  BY <1>0 DEF StateOK, BufOK
<1>b. ASSUME i <= Len(m_clients)
      PROVE  Current \in Clients /\ Contains(m_clients, Current)
  BY <1>0, <1>b, CurrentIsClient
<1>q. ASSUME UNCHANGED <<connVars, lockVars, bufVars>> PROVE StateOK'
  BY <1>0, <1>a, <1>q, QuietStep DEF connVars, bufVars
<1>l. ASSUME NEW cmd, NextLine(cmd)
      PROVE  /\ pc = "lines" /\ i <= Len(m_clients)
             /\ UNCHANGED <<i, drop, m_clients, m_shutdown>> /\ lines' \in Seq(Lines)
  BY <1>0, <1>l DEF NextLine, LoopOK
<1>1. CASE StartPass
  BY <1>0, <1>1, <1>q DEF StartPass, LoopOK, connVars
<1>2. ASSUME NEW c \in Clients, OnConnect(c) PROVE StateOK' /\ LoopOK'
  <2>1. LoopOK'
    BY <1>0, <1>2, AppendProperties DEF OnConnect, LoopOK
  <2>2. QED
    BY <1>0, <1>2, <2>1, ConnectStep
<1>3. CASE EndPass
  BY <1>0, <1>3, <1>q DEF EndPass, LoopOK, connVars
<1>4. CASE SkipDead
  BY <1>0, <1>4, <1>q DEF SkipDead, LoopOK, connVars
<1>5. CASE VisitClient
  <2>1. Received \subseteq Seq(Lines)
    BY ClientsAssumption DEF Received, BoundedSeq, SeqOf
  <2>2. lines' \in Seq(Lines) /\ drop' \in BOOLEAN /\ pc' \in {"transmit", "lines"}
    BY <1>0, <1>5, <2>1 DEF VisitClient, LoopOK
  <2>3. QED
    BY <1>0, <1>5, <1>q, <2>2 DEF VisitClient, LoopOK, connVars
<1>6. CASE ProcessControlAcquire
  <2>1. StateOK'
    BY <1>0, <1>b, <1>l, <1>6, AcquireStep DEF ProcessControlAcquire
  <2>2. QED
    BY <1>0, <1>b, <1>l, <1>6, <2>1 DEF ProcessControlAcquire, LoopOK
<1>7. CASE ProcessControlRelease
  <2>1. StateOK'
    BY <1>0, <1>b, <1>l, <1>7, ReleaseStep DEF ProcessControlRelease
  <2>2. QED
    BY <1>0, <1>l, <1>7, <2>1 DEF ProcessControlRelease, LoopOK
<1>8. CASE ProcessSet
  <2>1. StateOK'
    <3>1. CASE UNCHANGED bufVars
      BY <1>l, <1>q, <1>8, <3>1 DEF ProcessSet, connVars
    <3>2. CASE Reply(Current, "ERROR")
      BY <1>0, <1>l, <1>8, <3>2, ReplyStep DEF ProcessSet, Reply, ControlMessages
    <3>3. QED
      BY <1>8, <3>1, <3>2 DEF ProcessSet
  <2>2. QED
    BY <1>0, <1>l, <1>8, <2>1 DEF ProcessSet, LoopOK
<1>9. CASE ProcessGet
  BY <1>0, <1>l, <1>q, <1>9 DEF ProcessGet, LoopOK, connVars
<1>10. CASE ProcessQuit
  <2>1. StateOK'
    BY <1>0, <1>b, <1>l, <1>10, DropStep DEF ProcessQuit
  <2>2. QED
    BY <1>0, <1>l, <1>10, <2>1 DEF ProcessQuit, Drop, LoopOK
<1>11. CASE ProcessOther
  <2>1. StateOK'
    <3>1. CASE UNCHANGED bufVars
      BY <1>l, <1>q, <1>11, <3>1 DEF ProcessOther, connVars
    <3>2. CASE Reply(Current, "ERROR")
      BY <1>0, <1>l, <1>11, <3>2, ReplyStep DEF ProcessOther, Reply, ControlMessages
    <3>3. QED
      BY <1>11, <3>1, <3>2 DEF ProcessOther
  <2>2. QED
    BY <1>0, <1>l, <1>11, <2>1 DEF ProcessOther, LoopOK
<1>12. CASE NotifyResult
  <2>1. StateOK'
    BY <1>0, <1>12, ReplyStep DEF NotifyResult, Reply, ControlMessages, connVars
  <2>2. QED
    BY <1>0, <1>12, <2>1 DEF NotifyResult, LoopOK, connVars
<1>13. CASE EndOfData
  BY <1>0, <1>13, <1>q DEF EndOfData, LoopOK, connVars
<1>14. CASE TransmitData
  <2>1. StateOK'
    <3>1. m_txbuf' \in [Clients -> BOOLEAN]
      <4>1. CASE \E rest \in BOOLEAN : m_txbuf' = [m_txbuf EXCEPT ![Current] = rest]
        BY <1>a, <4>1
      <4>2. CASE UNCHANGED m_txbuf
        BY <1>a, <4>2
      <4>3. QED
        BY <1>14, <4>1, <4>2 DEF TransmitData
    <3>2. QED
      BY <1>0, <1>a, <1>14, <3>1, QuietStep DEF TransmitData, InSend, connVars
  <2>2. drop' \in BOOLEAN /\ m_shutdown' \in BOOLEAN
    BY <1>0, <1>14, Zenon DEF TransmitData, InSend, LoopOK
  <2>3. QED
    BY <1>0, <1>14, <2>1, <2>2 DEF TransmitData, InSend, LoopOK, connVars
<1>15. CASE NextClient
  BY <1>0, <1>15, <1>q DEF NextClient, LoopOK, connVars
<1>16. CASE DropClient
  <2>1. /\ m_clients \in Seq(Clients) /\ i \in 1 .. Len(m_clients)
        /\ Current \in Clients /\ Len(m_clients) \in Nat
    BY <1>0, <1>b, <1>16 DEF DropClient, LoopOK
  <2>2. /\ m_clients' \in Seq(Clients) /\ Len(m_clients') = Len(m_clients) - 1
        /\ \A d \in Clients \ {Current} : Contains(m_clients, d)' <=> Contains(m_clients, d)
    BY <1>16, <2>1, ListWithout DEF DropClient, Current
  <2>3. StateOK'
    <3>1. Drop(Current, "closed")
      BY <1>16 DEF DropClient
    <3>2. QED
      BY <1>0, <2>1, <2>2, <3>1, DropStep
  <2>4. LoopOK'
    <3>1. drop' \in BOOLEAN /\ m_shutdown' \in BOOLEAN
      BY <1>0, <1>16, Zenon DEF DropClient, LoopOK
    <3>2. QED
      BY <1>0, <1>16, <2>1, <2>2, <3>1 DEF DropClient, Drop, LoopOK
  <2>5. QED
    BY <2>3, <2>4
<1>17. CASE LeaveLoop
  BY <1>0, <1>17, <1>q DEF LeaveLoop, LoopOK, connVars
<1>18. CASE ExitDrop
  <2>1. /\ m_clients \in Seq(Clients) /\ m_clients # <<>>
        /\ Tail(m_clients) \in Seq(Clients) /\ Len(m_clients) \in Nat \ {0}
        /\ Head(m_clients) = m_clients[1] /\ Head(m_clients) \in Clients
        /\ Len(Tail(m_clients)) = Len(m_clients) - 1
        /\ \A j \in 1 .. Len(m_clients) - 1 : Tail(m_clients)[j] = m_clients[j + 1]
    BY <1>0, <1>18 DEF ExitDrop, LoopOK
  <2>2. ASSUME NEW d \in Clients \ {Head(m_clients)}
        PROVE  Contains(Tail(m_clients), d) <=> Contains(m_clients, d)
    <3>1. ASSUME Contains(m_clients, d) PROVE Contains(Tail(m_clients), d)
      <4>1. PICK k \in 1 .. Len(m_clients) : m_clients[k] = d /\ k # 1
        BY <2>1, <2>2, <3>1 DEF Contains
      <4>2. k - 1 \in 1 .. Len(m_clients) - 1 /\ (k - 1) + 1 = k
        BY <2>1, <4>1
      <4>3. Tail(m_clients)[k - 1] = d
        BY <2>1, <4>1, <4>2
      <4>4. QED
        BY <2>1, <4>2, <4>3 DEF Contains
    <3>2. ASSUME Contains(Tail(m_clients), d) PROVE Contains(m_clients, d)
      BY <2>1, <3>2 DEF Contains
    <3>3. QED
      BY <3>1, <3>2
  <2>3. StateOK'
    BY <1>0, <1>18, <2>1, <2>2, DropStep DEF ExitDrop
  <2>4. LoopOK'
    BY <1>0, <1>18, <2>1 DEF ExitDrop, Drop, LoopOK
  <2>5. QED
    BY <2>3, <2>4
<1>19. CASE ExitDone
  BY <1>0, <1>19, <1>q DEF ExitDone, LoopOK, connVars
<1>20. CASE Broadcast
  <2>1. StateOK'
    BY <1>0, <1>20, ReplyStep DEF Broadcast, ControlMessages, connVars
  <2>2. QED
    BY <1>0, <1>20, <2>1 DEF Broadcast, LoopOK, connVars, loopVars
<1>21. CASE NotifyController
  <2>1. StateOK'
    BY <1>0, <1>21, ReplyStep DEF NotifyController, Reply, ControlMessages, connVars
  <2>2. QED
    BY <1>0, <1>21, <2>1 DEF NotifyController, LoopOK, connVars, loopVars
<1>22. CASE Shutdown
  BY <1>0, <1>22, <1>q DEF Shutdown, LoopOK, connVars, loopVars
<1>23. CASE UNCHANGED vars
  BY <1>0, <1>23, <1>q DEF vars, LoopOK, connVars, lockVars, bufVars
<1>24. QED
  BY <1>1, <1>2, <1>3, <1>4, <1>5, <1>6, <1>7, <1>8, <1>9, <1>10, <1>11, <1>12,
     <1>13, <1>14, <1>15, <1>16, <1>17, <1>18, <1>19, <1>20, <1>21, <1>22, <1>23
     DEF Next, ServerThread, RunsFree

-----------------------------------------------------------------------------
(* The theorems.                                                           *)

LEMMA Invariance == Spec => []IInv
<1>1. IInv <=> StateOK /\ LoopOK
  BY IInvParts DEF StateOK
<1>2. QED
  BY <1>1, InitIInv, NextIInv, PTL DEF Spec

\* Every variable keeps its type; the iterator of OnRun never leaves the list.
THEOREM TypeCorrect == Spec => []TypeOK
<1>1. IInv => TypeOK
  BY DEF IInv
<1>2. QED
  BY <1>1, Invariance, PTL

\* AcquireControl and ReleaseControl keep the wait queue in order: no client
\* twice, never the controller, and empty when control is free.
THEOREM QueueCorrect == Spec => []QueueOK
<1>1. IInv => QueueOK
  BY DEF IInv
<1>2. QED
  BY <1>1, Invariance, PTL

\* The lock never points to a client that OnRun or OnExit took off the list.
THEOREM HoldersCorrect == Spec => []HoldersAttached
<1>1. IInv => HoldersAttached
  BY DEF IInv
<1>2. QED
  BY <1>1, Invariance, PTL

\* What a connected client was last told about control is true.
THEOREM ViewCorrect == Spec => []ClientViewAccurate
<1>1. IInv => ClientViewAccurate
  BY DEF IInv
<1>2. QED
  BY <1>1, Invariance, PTL

-----------------------------------------------------------------------------
(* The order in a queue.                                                   *)

\* AskedBefore, of any queue
BeforeIn(q) ==
    {p \in ToSet(q) \X ToSet(q) :
        \E j, k \in DOMAIN q : j < k /\ p = <<q[j], q[k]>>}

LEMMA InToSet ==
    ASSUME NEW S, NEW q \in Seq(S), NEW e
    PROVE  e \in ToSet(q) <=> \E j \in 1 .. Len(q) : q[j] = e
BY DEF ToSet

LEMMA BeforePair ==
    ASSUME NEW S, NEW q \in Seq(S), NEW a, NEW b
    PROVE  <<a, b>> \in BeforeIn(q) <=>
             \E j, k \in 1 .. Len(q) : j < k /\ q[j] = a /\ q[k] = b
<1>1. DOMAIN q = 1 .. Len(q)
  OBVIOUS
<1>2. ASSUME NEW j \in 1 .. Len(q), NEW k \in 1 .. Len(q), j < k, q[j] = a, q[k] = b
      PROVE  <<a, b>> \in BeforeIn(q)
  <2>1. a \in ToSet(q) /\ b \in ToSet(q)
    BY <1>2, InToSet
  <2>2. QED
    BY <1>1, <1>2, <2>1 DEF BeforeIn
<1>3. ASSUME <<a, b>> \in BeforeIn(q)
      PROVE  \E j, k \in 1 .. Len(q) : j < k /\ q[j] = a /\ q[k] = b
  BY <1>1, <1>3 DEF BeforeIn
<1>4. QED
  BY <1>2, <1>3

\* Two sets of pairs are equal when they have the same pairs.
LEMMA SamePairs ==
    ASSUME NEW A, NEW B, NEW R \in SUBSET (A \X B), NEW T \in SUBSET (A \X B),
           \A a \in A, b \in B : <<a, b>> \in R <=> <<a, b>> \in T
    PROVE  R = T
<1>1. ASSUME NEW p \in A \X B PROVE p \in R <=> p \in T
  <2>1. PICK a \in A, b \in B : p = <<a, b>>
    OBVIOUS
  <2>2. QED
    BY <2>1
<1>2. QED
  BY <1>1

LEMMA BeforeAppend ==
    ASSUME NEW S, NEW q \in Seq(S), NEW e \in S
    PROVE  /\ ToSet(Append(q, e)) = ToSet(q) \cup {e}
           /\ BeforeIn(Append(q, e)) = BeforeIn(q) \cup (ToSet(q) \X {e})
<1>1. PICK r : r = Append(q, e)
  OBVIOUS
<1>2. /\ r \in Seq(S) /\ Len(q) \in Nat /\ Len(r) = Len(q) + 1 /\ r[Len(q) + 1] = e
      /\ \A j \in 1 .. Len(q) : r[j] = q[j]
  BY <1>1, AppendProperties
<1>3. ToSet(r) = ToSet(q) \cup {e}
  <2>1. ASSUME NEW d PROVE d \in ToSet(r) <=> d \in ToSet(q) \/ d = e
    <3>1. ASSUME d \in ToSet(r) PROVE d \in ToSet(q) \/ d = e
      <4>1. PICK j \in 1 .. Len(r) : r[j] = d
        BY <1>2, <3>1, InToSet
      <4>2. j \in 1 .. Len(q) \/ j = Len(q) + 1
        BY <1>2
      <4>3. QED
        BY <1>2, <4>1, <4>2, InToSet
    <3>2. ASSUME d \in ToSet(q) PROVE d \in ToSet(r)
      <4>1. PICK j \in 1 .. Len(q) : q[j] = d
        BY <3>2, InToSet
      <4>2. j \in 1 .. Len(r) /\ r[j] = d
        BY <1>2, <4>1
      <4>3. QED
        BY <1>2, <4>2, InToSet
    <3>3. e \in ToSet(r)
      <4>1. Len(q) + 1 \in 1 .. Len(r)
        BY <1>2
      <4>2. QED
        BY <1>2, <4>1, InToSet
    <3>4. QED
      BY <3>1, <3>2, <3>3
  <2>2. QED
    BY <2>1
<1>4. ASSUME NEW a, NEW b
      PROVE  <<a, b>> \in BeforeIn(r) <=> <<a, b>> \in BeforeIn(q) \cup (ToSet(q) \X {e})
  <2>1. ASSUME <<a, b>> \in BeforeIn(r)
        PROVE  <<a, b>> \in BeforeIn(q) \cup (ToSet(q) \X {e})
    <3>1. PICK j, k \in 1 .. Len(r) : j < k /\ r[j] = a /\ r[k] = b
      BY <1>2, <2>1, BeforePair
    <3>2. j \in 1 .. Len(q) /\ q[j] = a
      BY <1>2, <3>1
    <3>3. CASE k \in 1 .. Len(q)
      <4>1. q[k] = b
        BY <1>2, <3>1, <3>3
      <4>2. <<a, b>> \in BeforeIn(q)
        BY <3>1, <3>2, <3>3, <4>1, BeforePair
      <4>3. QED
        BY <4>2
    <3>4. CASE k = Len(q) + 1
      <4>1. b = e /\ a \in ToSet(q)
        BY <1>2, <3>1, <3>2, <3>4, InToSet
      <4>2. QED
        BY <4>1
    <3>5. QED
      BY <1>2, <3>3, <3>4
  <2>2. ASSUME <<a, b>> \in BeforeIn(q) PROVE <<a, b>> \in BeforeIn(r)
    <3>1. PICK j, k \in 1 .. Len(q) : j < k /\ q[j] = a /\ q[k] = b
      BY <2>2, BeforePair
    <3>2. j \in 1 .. Len(r) /\ k \in 1 .. Len(r) /\ r[j] = a /\ r[k] = b
      BY <1>2, <3>1
    <3>3. QED
      BY <1>2, <3>1, <3>2, BeforePair
  <2>3. ASSUME a \in ToSet(q), b = e PROVE <<a, b>> \in BeforeIn(r)
    <3>1. PICK j \in 1 .. Len(q) : q[j] = a
      BY <2>3, InToSet
    <3>2. /\ j \in 1 .. Len(r) /\ Len(q) + 1 \in 1 .. Len(r) /\ j < Len(q) + 1
          /\ r[j] = a /\ r[Len(q) + 1] = b
      BY <1>2, <2>3, <3>1
    <3>3. QED
      BY <1>2, <3>2, BeforePair
  <2>4. QED
    BY <2>1, <2>2, <2>3
<1>5. BeforeIn(r) = BeforeIn(q) \cup (ToSet(q) \X {e})
  <2>1. BeforeIn(r) \subseteq ToSet(r) \X ToSet(r)
    BY DEF BeforeIn
  <2>2. BeforeIn(q) \cup (ToSet(q) \X {e}) \subseteq ToSet(r) \X ToSet(r)
    BY <1>3 DEF BeforeIn
  <2>3. QED
    BY <1>4, <2>1, <2>2, SamePairs
<1>6. QED
  BY <1>1, <1>3, <1>5

\* r is q without its n-th element.
LEMMA BeforeWithout ==
    ASSUME NEW S, NEW q \in Seq(S), Distinct(q), NEW n \in 1 .. Len(q), NEW r \in Seq(S),
           Len(r) = Len(q) - 1,
           \A j \in 1 .. Len(q) - 1 : r[j] = IF j < n THEN q[j] ELSE q[j + 1]
    PROVE  /\ ToSet(r) = ToSet(q) \ {q[n]}
           /\ BeforeIn(r) = BeforeIn(q) \cap (ToSet(r) \X ToSet(r))
<1>1. Len(q) \in Nat /\ n \in Nat
  OBVIOUS
\* Positions in r and in q, in the same order.
<1>2. ASSUME NEW j \in 1 .. Len(r)
      PROVE  \E m \in 1 .. Len(q) : /\ m # n /\ r[j] = q[m]
                                    /\ m = IF j < n THEN j ELSE j + 1
  <2>1. CASE j < n
    BY <1>1, <2>1
  <2>2. CASE ~ (j < n)
    <3>1. j + 1 \in 1 .. Len(q) /\ j + 1 # n /\ r[j] = q[j + 1]
      BY <1>1, <2>2
    <3>2. QED
      BY <2>2, <3>1
  <2>3. QED
    BY <2>1, <2>2
<1>3. ASSUME NEW m \in 1 .. Len(q), m # n
      PROVE  \E j \in 1 .. Len(r) : /\ r[j] = q[m]
                                    /\ j = IF m < n THEN m ELSE m - 1
  <2>1. CASE m < n
    BY <1>1, <2>1
  <2>2. CASE ~ (m < n)
    <3>1. PICK j \in 1 .. Len(r) : j = m - 1 /\ ~ (j < n) /\ j + 1 = m
      <4>1. m - 1 \in 1 .. Len(r) /\ ~ (m - 1 < n) /\ (m - 1) + 1 = m
        BY <1>1, <1>3, <2>2
      <4>2. QED
        BY <4>1
    <3>2. r[j] = q[m]
      BY <3>1
    <3>3. QED
      BY <2>2, <3>1, <3>2
  <2>3. QED
    BY <2>1, <2>2
<1>4. ToSet(r) = ToSet(q) \ {q[n]}
  <2>1. ASSUME NEW d PROVE d \in ToSet(r) <=> d \in ToSet(q) /\ d # q[n]
    <3>1. ASSUME d \in ToSet(r) PROVE d \in ToSet(q) /\ d # q[n]
      <4>1. PICK j \in 1 .. Len(r) : r[j] = d
        BY <3>1, InToSet
      <4>2. PICK m \in 1 .. Len(q) : m # n /\ r[j] = q[m]
        BY <1>2
      <4>3. d \in ToSet(q)
        BY <4>1, <4>2, InToSet
      <4>4. QED
        BY <4>1, <4>2, <4>3 DEF Distinct
    <3>2. ASSUME d \in ToSet(q), d # q[n] PROVE d \in ToSet(r)
      <4>1. PICK m \in 1 .. Len(q) : q[m] = d
        BY <3>2, InToSet
      <4>2. PICK j \in 1 .. Len(r) : r[j] = q[m]
        BY <1>3, <3>2, <4>1
      <4>3. QED
        BY <4>1, <4>2, InToSet
    <3>3. QED
      BY <3>1, <3>2
  <2>2. QED
    BY <2>1
<1>5. ASSUME NEW a \in ToSet(r), NEW b \in ToSet(r)
      PROVE  <<a, b>> \in BeforeIn(r) <=> <<a, b>> \in BeforeIn(q)
  <2>1. ASSUME <<a, b>> \in BeforeIn(r) PROVE <<a, b>> \in BeforeIn(q)
    <3>1. PICK j, k \in 1 .. Len(r) : j < k /\ r[j] = a /\ r[k] = b
      BY <2>1, BeforePair, SMTT(30)
    <3>2. PICK x \in 1 .. Len(q) : r[j] = q[x] /\ x = IF j < n THEN j ELSE j + 1
      BY <1>2
    <3>3. PICK y \in 1 .. Len(q) : r[k] = q[y] /\ y = IF k < n THEN k ELSE k + 1
      BY <1>2
    <3>4. x < y
      BY <1>1, <3>1, <3>2, <3>3
    <3>5. QED
      BY <3>1, <3>2, <3>3, <3>4, BeforePair
  <2>2. ASSUME <<a, b>> \in BeforeIn(q) PROVE <<a, b>> \in BeforeIn(r)
    <3>1. PICK x, y \in 1 .. Len(q) : x < y /\ q[x] = a /\ q[y] = b
      BY <2>2, BeforePair
    <3>2. x # n /\ y # n
      BY <1>4, <3>1
    <3>3. PICK j \in 1 .. Len(r) : r[j] = q[x] /\ j = IF x < n THEN x ELSE x - 1
      BY <1>3, <3>2
    <3>4. PICK k \in 1 .. Len(r) : r[k] = q[y] /\ k = IF y < n THEN y ELSE y - 1
      BY <1>3, <3>2
    <3>5. j < k
      BY <1>1, <3>1, <3>2, <3>3, <3>4
    <3>6. QED
      <4>1. r[j] = a /\ r[k] = b
        BY <3>1, <3>3, <3>4
      <4> QED
        BY ONLY <3>5, <4>1, BeforePair
  <2>3. QED
    BY <2>1, <2>2
<1>6. BeforeIn(r) = BeforeIn(q) \cap (ToSet(r) \X ToSet(r))
  <2>1. BeforeIn(r) \subseteq ToSet(r) \X ToSet(r)
    BY DEF BeforeIn
  <2>2. QED
    BY <1>5, <2>1, SamePairs
<1>7. QED
  BY <1>4, <1>6

-----------------------------------------------------------------------------
(* ControlArbiter implements ControlLock.                                  *)

LEMMA AcquireIsAllowed ==
    ASSUME LockOK, NEW c \in Clients, AcquireControl(c)
    PROVE  Lock!Next \/ UNCHANGED <<m_controller, m_control_queue>>
<1> USE ClientsAssumption
<1>0. m_control_queue \in Seq(Clients) /\ AskedBefore = BeforeIn(m_control_queue)
  BY DEF LockOK, AskedBefore, BeforeIn
<1>1. CASE /\ m_controller = NoClient /\ m_control_queue = <<>>
           /\ m_controller' = c /\ m_control_queue' = m_control_queue
  <2>1. ToSet(m_control_queue) = {}
    BY <1>1 DEF ToSet
  <2>2. ToSet(m_control_queue)' = ToSet(m_control_queue) /\ AskedBefore' = AskedBefore
    BY <1>1 DEF AskedBefore
  <2>3. Lock!Take(c)
    BY <1>1, <2>1, <2>2 DEF Lock!Take
  <2>4. QED
    BY <2>3 DEF Lock!Next
<1>2. CASE UNCHANGED lockVars
  BY <1>2 DEF lockVars
<1>3. CASE /\ ~ (m_controller = NoClient /\ m_control_queue = <<>>)
           /\ ~ HasControl(c)
           /\ m_control_queue' = IF IsWaitingForControl(c) THEN m_control_queue
                                 ELSE Append(m_control_queue, c)
           /\ m_controller' = m_controller
  <2>1. CASE IsWaitingForControl(c)
    BY <1>3, <2>1
  <2>2. CASE ~ IsWaitingForControl(c)
    <3>1. PICK q : q = m_control_queue
      OBVIOUS
    <3>2. q \in Seq(Clients) /\ m_control_queue' = Append(q, c)
      BY <1>0, <1>3, <2>2, <3>1
    <3>3. /\ ToSet(m_control_queue)' = ToSet(q) \cup {c}
          /\ AskedBefore' = BeforeIn(q) \cup (ToSet(q) \X {c})
      <4>1. AskedBefore' = BeforeIn(m_control_queue')
        BY DEF AskedBefore, BeforeIn
      <4>2. QED
        BY <3>2, <4>1, BeforeAppend
    <3>4. m_controller \notin {NoClient, c}
      BY <1>3, QueueIsDistinct DEF HasControl
    <3>5. c \notin ToSet(q)
      BY <2>2, <3>1, <3>2, InToSet DEF IsWaitingForControl, Contains
    <3>6. Lock!Ask(c)
      BY <1>0, <1>3, <3>1, <3>3, <3>4, <3>5 DEF Lock!Ask
    <3>7. QED
      BY <3>6 DEF Lock!Next
  <2>3. QED
    BY <2>1, <2>2
<1>4. QED
  BY <1>1, <1>2, <1>3 DEF AcquireControl, lockVars

LEMMA ReleaseIsAllowed ==
    ASSUME LockOK, NEW c \in Clients, ReleaseControl(c)
    PROVE  Lock!Next \/ UNCHANGED <<m_controller, m_control_queue>>
<1> USE ClientsAssumption
<1>1. PICK q \in Seq(Clients) : q = m_control_queue
  BY DEF LockOK
<1>2. /\ Distinct(q) /\ Len(q) \in Nat
      /\ AskedBefore = BeforeIn(q) /\ AskedBefore' = BeforeIn(m_control_queue')
  BY <1>1, QueueIsDistinct DEF AskedBefore, BeforeIn
\* What the queue is without its n-th client
<1>3. ASSUME NEW n \in 1 .. Len(q), m_control_queue' = RemoveAt(q, n)
      PROVE  /\ ToSet(m_control_queue)' = ToSet(q) \ {q[n]}
             /\ AskedBefore' = BeforeIn(q) \cap (ToSet(m_control_queue)' \X ToSet(m_control_queue)')
  <2>1. PICK r : r = RemoveAt(q, n)
    OBVIOUS
  <2>2. /\ r \in Seq(Clients) /\ Len(r) = Len(q) - 1
        /\ \A j \in 1 .. Len(q) - 1 : r[j] = IF j < n THEN q[j] ELSE q[j + 1]
    BY <2>1, RemoveAtFacts
  <2>3. /\ ToSet(r) = ToSet(q) \ {q[n]}
        /\ BeforeIn(r) = BeforeIn(q) \cap (ToSet(r) \X ToSet(r))
    BY <1>2, <2>2, BeforeWithout, SMTT(30)
  <2>4. QED
    BY <1>2, <1>3, <2>1, <2>3
<1>4. CASE /\ HasControl(c) /\ m_control_queue = <<>>
           /\ m_controller' = NoClient /\ m_control_queue' = m_control_queue
  <2>1. ToSet(m_control_queue) = {}
    BY <1>4 DEF ToSet
  <2>2. ToSet(m_control_queue)' = ToSet(m_control_queue) /\ AskedBefore' = AskedBefore
    BY <1>4 DEF AskedBefore
  <2>3. Lock!GiveUp
    BY <1>4, <2>1, <2>2 DEF Lock!GiveUp, HasControl
  <2>4. QED
    BY <2>3 DEF Lock!Next
<1>5. CASE /\ HasControl(c) /\ m_control_queue # <<>>
           /\ m_controller' = Head(m_control_queue)
           /\ m_control_queue' = Tail(m_control_queue)
  <2>1. PICK h : h = q[1]
    OBVIOUS
  <2>2. /\ 1 \in 1 .. Len(q) /\ h \in Clients /\ m_controller' = h /\ h \in ToSet(q)
    BY <1>1, <1>5, <2>1, InToSet
  <2>3. m_control_queue' = RemoveAt(q, 1)
    <3>1. PICK r : r = RemoveAt(q, 1)
      OBVIOUS
    <3>2. /\ r \in Seq(Clients) /\ Len(r) = Len(q) - 1
          /\ \A j \in 1 .. Len(q) - 1 : r[j] = IF j < 1 THEN q[j] ELSE q[j + 1]
      BY <2>2, <3>1, RemoveAtFacts
    <3>3. /\ Tail(q) \in Seq(Clients) /\ Len(Tail(q)) = Len(q) - 1
          /\ \A j \in 1 .. Len(q) - 1 : Tail(q)[j] = q[j + 1]
      BY <1>1, <1>5
    <3>4. \A j \in 1 .. Len(q) - 1 : ~ (j < 1) /\ r[j] = Tail(q)[j]
      BY <1>2, <3>2, <3>3
    <3>5. r = Tail(q)
      BY <3>2, <3>3, <3>4, SeqEqual
    <3>6. QED
      BY <1>1, <1>5, <3>1, <3>5
  <2>4. \A d : <<d, h>> \notin BeforeIn(q)
    <3>1. SUFFICES ASSUME NEW d, <<d, h>> \in BeforeIn(q) PROVE FALSE
      OBVIOUS
    <3>2. PICK j, k \in 1 .. Len(q) : j < k /\ q[j] = d /\ q[k] = h
      BY <3>1, BeforePair
    <3>3. k = 1
      BY <1>2, <2>1, <2>2, <3>2 DEF Distinct
    <3>4. QED
      BY <3>2, <3>3
  <2>5. /\ ToSet(m_control_queue)' = ToSet(q) \ {h}
        /\ AskedBefore' = BeforeIn(q) \cap (ToSet(m_control_queue)' \X ToSet(m_control_queue)')
    BY <1>3, <2>1, <2>2, <2>3
  <2>6. Lock!HandOver(h)
    BY <1>1, <1>2, <1>5, <2>2, <2>4, <2>5 DEF Lock!HandOver, Lock!Among, HasControl
  <2>7. QED
    BY <2>2, <2>6 DEF Lock!Next
<1>6. CASE /\ ~ HasControl(c)
           /\ m_control_queue' = RemoveFirst(m_control_queue, c)
           /\ m_controller' = m_controller
  <2>1. CASE m_control_queue' = m_control_queue
    BY <1>6, <2>1
  <2>2. CASE \E n \in 1 .. Len(q) : q[n] = c /\ m_control_queue' = RemoveAt(q, n)
    <3>1. PICK n \in 1 .. Len(q) : q[n] = c /\ m_control_queue' = RemoveAt(q, n)
      BY <2>2
    <3>2. c \in ToSet(q)
      BY <3>1, InToSet
    <3>3. /\ ToSet(m_control_queue)' = ToSet(q) \ {c}
          /\ AskedBefore' = BeforeIn(q) \cap (ToSet(m_control_queue)' \X ToSet(m_control_queue)')
      BY <1>3, <3>1
    <3>4. Lock!Withdraw(c)
      BY <1>1, <1>2, <1>6, <3>2, <3>3 DEF Lock!Withdraw, Lock!Among
    <3>5. QED
      BY <3>4 DEF Lock!Next
  <2>3. QED
    BY <1>1, <1>2, <1>6, <2>1, <2>2, RemoveFirstFacts
<1>7. QED
  BY <1>4, <1>5, <1>6 DEF ReleaseControl

-----------------------------------------------------------------------------
(* What a step does to the lock and to the sockets.                        *)

LEMMA LockSteps ==
    ASSUME IInv, [Next]_vars
    PROVE  \/ /\ UNCHANGED <<lockVars, revived>>
              /\ \A d \in Clients : m_sock'[d] \in {m_sock[d], "open"}
           \/ /\ Current \in Clients /\ AcquireControl(Current) /\ UNCHANGED m_sock
              /\ revived' = IF IsDead(Current) THEN revived \cup {Current} ELSE revived
           \/ \E c \in Clients :
                /\ ReleaseControl(c)
                /\ \A d \in Clients \ {c} :
                     m_sock'[d] = m_sock[d] /\ (d \in revived' <=> d \in revived)
<1>0. LoopOK /\ SockOK
  BY IInvParts
<1>1. ASSUME i <= Len(m_clients) PROVE Current \in Clients
  BY <1>0, <1>1, CurrentIsClient
<1>2. ASSUME NEW cmd, NextLine(cmd) PROVE Current \in Clients
  BY <1>0, <1>1, <1>2 DEF NextLine, LoopOK
<1>3. ASSUME NEW c \in Clients, NEW sock, Drop(c, sock)
      PROVE  /\ ReleaseControl(c)
             /\ \A d \in Clients \ {c} :
                  m_sock'[d] = m_sock[d] /\ (d \in revived' <=> d \in revived)
  BY <1>0, <1>3 DEF Drop, SockOK
<1>4. CASE ProcessControlAcquire
  BY <1>2, <1>4 DEF ProcessControlAcquire
<1>5. CASE ProcessControlRelease
  BY <1>2, <1>5 DEF ProcessControlRelease
<1>6. CASE ProcessQuit
  BY <1>2, <1>3, <1>6 DEF ProcessQuit
<1>7. CASE DropClient
  BY <1>0, <1>1, <1>3, <1>7 DEF DropClient, LoopOK
<1>8. CASE ExitDrop
  <2>1. Head(m_clients) \in Clients
    BY <1>0, <1>8 DEF ExitDrop, LoopOK
  <2>2. QED
    BY <1>3, <1>8, <2>1 DEF ExitDrop
<1>9. ASSUME NEW c \in Clients, OnConnect(c)
      PROVE  /\ UNCHANGED <<lockVars, revived>>
             /\ \A d \in Clients : m_sock'[d] \in {m_sock[d], "open"}
  BY <1>0, <1>9 DEF OnConnect, SockOK
<1>10. CASE UNCHANGED <<lockVars, revived, m_sock>>
  BY <1>10
<1>11. CASE StartPass \/ EndPass \/ SkipDead \/ VisitClient \/ ProcessSet \/ ProcessGet
            \/ ProcessOther \/ NotifyResult \/ EndOfData \/ TransmitData \/ NextClient
            \/ LeaveLoop \/ ExitDone \/ Broadcast \/ NotifyController \/ Shutdown
            \/ UNCHANGED vars
  BY <1>10, <1>11
     DEF StartPass, EndPass, SkipDead, VisitClient, ProcessSet, ProcessGet, ProcessOther,
         NotifyResult, EndOfData, TransmitData, NextClient, LeaveLoop, ExitDone, Broadcast,
         NotifyController, Shutdown, vars, lockVars, connVars
<1>12. QED
  BY <1>4, <1>5, <1>6, <1>7, <1>8, <1>9, <1>11 DEF Next, ServerThread, RunsFree

\* AcquireControl and ReleaseControl, driven by any commands, hang-ups and a
\* shutdown, are a lock that serves clients in the order in which they asked.
THEOREM LockCorrect == Spec => ImplementsLock
<1>1. Init => Lock!Init
  BY DEF Init, Lock!Init, AskedBefore, ToSet
<1>2. IInv /\ [Next]_vars => [Lock!Next]_(Lock!vars)
  <2> SUFFICES ASSUME IInv, [Next]_vars
               PROVE  Lock!Next \/ UNCHANGED Lock!vars
    OBVIOUS
  <2>1. ASSUME UNCHANGED <<m_controller, m_control_queue>> PROVE UNCHANGED Lock!vars
    BY <2>1 DEF Lock!vars, AskedBefore
  <2>2. LockOK
    BY IInvParts
  <2>3. QED
    BY <2>1, <2>2, LockSteps, AcquireIsAllowed, ReleaseIsAllowed DEF lockVars
<1>3. QED
  BY <1>1, <1>2, Invariance, PTL DEF Spec, ImplementsLock, Lock!Spec

-----------------------------------------------------------------------------
(* SET is for the controller.                                              *)

SetHeld == pc = "future" /\ asked = "SET" => HasControl(Current)

LEMMA SetHeldStep ==
    ASSUME IInv, SetHeld, [Next]_vars
    PROVE  SetHeld'
<1>0. LoopOK
  BY IInvParts
<1>1. ASSUME UNCHANGED <<pc, asked, i, m_clients, m_controller>> PROVE SetHeld'
  BY <1>1 DEF SetHeld, HasControl, Current
<1>2. ASSUME pc' # "future" PROVE SetHeld'
  BY <1>2 DEF SetHeld
<1>3. CASE ProcessSet
  <2>1. CASE HasControl(Current)
    BY <1>3, <2>1 DEF ProcessSet, NextLine, SetHeld, HasControl, Current, lockVars
  <2>2. CASE ~ HasControl(Current)
    BY <1>2, <1>3, <2>2 DEF ProcessSet, NextLine
  <2>3. QED
    BY <2>1, <2>2
<1>4. CASE ProcessGet
  BY <1>4 DEF ProcessGet, SetHeld
<1>5. CASE Broadcast \/ NotifyController \/ Shutdown \/ UNCHANGED vars
  BY <1>1, <1>5 DEF Broadcast, NotifyController, Shutdown, vars, connVars, lockVars, loopVars
<1>6. CASE StartPass \/ (\E c \in Clients : OnConnect(c)) \/ EndPass \/ SkipDead \/ VisitClient
           \/ NotifyResult \/ EndOfData \/ TransmitData \/ NextClient \/ DropClient
           \/ LeaveLoop \/ ExitDrop \/ ExitDone
  BY <1>2, <1>6
     DEF StartPass, OnConnect, EndPass, SkipDead, VisitClient, NotifyResult, EndOfData,
         TransmitData, InSend, NextClient, DropClient, LeaveLoop, ExitDrop, ExitDone
<1>7. CASE ProcessControlAcquire \/ ProcessControlRelease \/ ProcessQuit \/ ProcessOther
  BY <1>2, <1>7
     DEF ProcessControlAcquire, ProcessControlRelease, ProcessQuit, ProcessOther, NextLine
<1>8. QED
  BY <1>3, <1>4, <1>5, <1>6, <1>7 DEF Next, ServerThread, RunsFree

\* ValidateSet's test still holds when the radio has the SET: nothing that the
\* other threads do while the server thread waits in NotifyResult moves control,
\* and no other client believes that it has it.
THEOREM WritesExclusive == Spec => []ExclusiveWrites
<1>1. Init => SetHeld
  BY DEF Init, SetHeld
<1>2. SetHeld /\ IInv /\ [Next]_vars => SetHeld'
  BY SetHeldStep
<1>3. SetHeld /\ IInv => ExclusiveWrites
  BY DEF SetHeld, IInv, ClientViewAccurate, ExclusiveWrites, HasControl
<1>4. QED
  BY <1>1, <1>2, <1>3, Invariance, PTL DEF Spec

-----------------------------------------------------------------------------
(* A dropped client holds nothing.                                         *)

LEMMA DroppedStep ==
    ASSUME IInv, DroppedReleased, [Next]_vars
    PROVE  DroppedReleased'
<1>0. LockOK /\ SockOK
  BY IInvParts
<1>1. CASE /\ UNCHANGED <<lockVars, revived>>
           /\ \A d \in Clients : m_sock'[d] \in {m_sock[d], "open"}
  BY <1>1 DEF DroppedReleased, HasControl, IsWaitingForControl, lockVars
<1>2. CASE /\ Current \in Clients /\ AcquireControl(Current) /\ UNCHANGED m_sock
           /\ revived' = IF IsDead(Current) THEN revived \cup {Current} ELSE revived
  <2>1. PICK c \in Clients : c = Current
    BY <1>2
  <2>2. /\ AcquireControl(c) /\ m_sock' = m_sock
        /\ m_sock[c] = "open" \/ c \in revived'
        /\ \A d \in Clients \ {c} : d \in revived' <=> d \in revived
    BY <1>2, <2>1 DEF IsDead
  <2>3. \A d \in Clients \ {c} : /\ HasControl(d)' <=> HasControl(d)
                                 /\ IsWaitingForControl(d)' <=> IsWaitingForControl(d)
    BY <1>0, <2>2, AcquireFacts
  <2>4. QED
    BY <2>2, <2>3 DEF DroppedReleased
<1>3. ASSUME NEW c \in Clients, ReleaseControl(c),
             \A d \in Clients \ {c} :
                m_sock'[d] = m_sock[d] /\ (d \in revived' <=> d \in revived)
      PROVE  DroppedReleased'
  <2>1. /\ ~ HasControl(c)' /\ ~ IsWaitingForControl(c)'
        /\ Heir(c) \subseteq Clients \ {c}
        /\ \A d \in Heir(c) : IsWaitingForControl(d)
        /\ \A d \in Clients \ {c} : d \notin Heir(c) =>
             /\ HasControl(d)' <=> HasControl(d)
             /\ IsWaitingForControl(d)' <=> IsWaitingForControl(d)
    BY <1>0, <1>3, ReleaseFacts
  <2>2. QED
    BY <1>3, <2>1 DEF DroppedReleased
<1>4. QED
  BY <1>1, <1>2, <1>3, LockSteps

\* Whatever the clients send, in however many lines at a time, and however they
\* leave: a client that was dropped is neither the controller nor in the queue
\* unless it asked again after its drop.
THEOREM DroppedCorrect == Spec => []DroppedReleased
<1>1. Init => DroppedReleased
  BY DEF Init, DroppedReleased
<1>2. DroppedReleased /\ IInv /\ [Next]_vars => DroppedReleased'
  BY DroppedStep
<1>3. QED
  BY <1>1, <1>2, Invariance, PTL DEF Spec
=============================================================================
