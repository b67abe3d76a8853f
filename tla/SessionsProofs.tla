--------------------------- MODULE SessionsProofs ---------------------------
(***************************************************************************)
(* Proofs about Sessions for any number of nodes and connections, any      *)
(* timeout, both stores, and every failure the module allows: types,       *)
(* mutual authentication, a table without ghosts, one synapse per peer on  *)
(* SQLite, and a dial that connects unless something got in its way.       *)
(***************************************************************************)
EXTENDS Sessions, SequenceTheorems, FiniteSetTheorems, TLAPS

(* The two ends of a connection. *)
LEMMA EndFacts ==
    ASSUME NEW e \in Ends
    PROVE  /\ Other(e) \in Ends /\ Other(Other(e)) = e /\ Other(e) # e
           /\ Conn(e) \in Conns /\ Conn(Other(e)) = Conn(e)
           /\ Owner(e) \in Nodes /\ Peer(e) \in Nodes
           /\ Peer(Other(e)) = Owner(e) /\ Owner(Other(e)) = Peer(e)
           /\ NoEnd # e
  <1>1. PICK c \in Conns, side \in {"dialer", "listener"} : e = <<c, side>>
    BY DEF Ends
  <1>2. e[1] = c /\ e[2] = side
    BY <1>1
  <1>3. Other(e) = <<c, IF side = "dialer" THEN "listener" ELSE "dialer">>
    BY <1>2 DEF Other
  <1>4. Other(e) \in Ends /\ Other(e) # e /\ Other(e)[1] = c
    BY <1>1, <1>3 DEF Ends
  <1>5. Other(Other(e)) = e
    BY <1>1, <1>3 DEF Other
  <1>6. \A x \in Ends : Owner(x) \in Nodes
    BY SessionsAssumption DEF Owner, Ends
  <1>7. NoEnd # e
    BY SessionsAssumption DEF Ends
  <1> QED BY <1>2, <1>4, <1>5, <1>6, <1>7 DEF Conn, Peer

(* What an end sends are frames. *)
LEMMA FrameFacts ==
    ASSUME NEW e \in Ends
    PROVE  /\ Hello(e) \in Frame
           /\ \A f \in Frame : Proof(e, f) \in Frame
  BY EndFacts DEF Hello, Proof, Frame

(* A task goes on: its phase is set, its timer starts anew, the network     *)
(* holds w and nothing else changes.                                        *)
LEMMA GoesFacts ==
    ASSUME TypeOK, NEW e \in Ends, NEW ph \in Phases,
           NEW w \in [Ends -> Seq(Frame)], Goes(e, ph, w)
    PROVE  /\ phase' \in [Ends -> Phases] /\ wire' \in [Ends -> Seq(Frame)]
           /\ timer' \in [Ends -> 0..Timeout]
           /\ phase'[e] = ph
           /\ \A x \in Ends : x # e => phase'[x] = phase[x]
           /\ \A x \in Ends : wire'[x] \in {w[x], <<>>}
           /\ \A x \in Ends : ph # "done" => wire'[x] = w[x]
  <1>1. 0 \in 0..Timeout
    BY SessionsAssumption
  <1>2. <<>> \in Seq(Frame)
    OBVIOUS
  <1> QED BY <1>1, <1>2 DEF Goes, TypeOK

(* Writing a frame adds it behind the frames the other end has not read. *)
LEMMA SentFacts ==
    ASSUME NEW w \in [Ends -> Seq(Frame)], NEW e \in Ends, NEW f \in Frame
    PROVE  /\ Sent(w, e, f) \in [Ends -> Seq(Frame)]
           /\ \A x \in Ends : x # Other(e) => Sent(w, e, f)[x] = w[x]
           /\ \A i \in DOMAIN Sent(w, e, f)[Other(e)] :
                 \/ Sent(w, e, f)[Other(e)][i] = f
                 \/ \E j \in DOMAIN w[Other(e)] : Sent(w, e, f)[Other(e)][i] = w[Other(e)][j]
  <1>1. Other(e) \in Ends
    BY EndFacts
  <1> DEFINE o == Other(e)
             a == Append(w[o], f)
  <1>2. w[o] \in Seq(Frame) /\ a \in Seq(Frame) /\ Len(a) = Len(w[o]) + 1
        /\ \A i \in 1..Len(a) : a[i] = IF i = Len(w[o]) + 1 THEN f ELSE w[o][i]
    BY <1>1
  <1>3. \A i \in DOMAIN a : a[i] = f \/ \E j \in DOMAIN w[o] : a[i] = w[o][j]
    <2> SUFFICES ASSUME NEW i \in DOMAIN a
                 PROVE  a[i] = f \/ \E j \in DOMAIN w[o] : a[i] = w[o][j]
      OBVIOUS
    <2>1. i \in 1..(Len(w[o]) + 1) /\ Len(w[o]) \in Nat
      BY <1>2
    <2>2. i = Len(w[o]) + 1 \/ i \in DOMAIN w[o]
      BY <2>1, <1>2
    <2> QED BY <2>1, <2>2, <1>2
  <1>4. CASE phase[o] = "done"
    BY <1>4 DEF Sent
  <1>5. CASE phase[o] # "done"
    <2>1. Sent(w, e, f) = [w EXCEPT ![o] = a]
      BY <1>5 DEF Sent
    <2> HIDE DEF a
    <2> QED BY <2>1, <1>1, <1>2, <1>3
  <1> QED BY <1>4, <1>5

(* Reading takes the first frame. *)
LEMMA RestFacts ==
    ASSUME TypeOK, NEW e \in Ends, wire[e] # <<>>
    PROVE  /\ Rest(e) \in [Ends -> Seq(Frame)]
           /\ Head(wire[e]) \in Frame /\ Head(wire[e]) = wire[e][1] /\ 1 \in DOMAIN wire[e]
           /\ \A x \in Ends : \A i \in DOMAIN Rest(e)[x] :
                 \E j \in DOMAIN wire[x] : Rest(e)[x][i] = wire[x][j]
  <1> DEFINE q == wire[e]
  <1>1. q \in Seq(Frame) /\ q # <<>>
    BY DEF TypeOK
  <1>2. Tail(q) \in Seq(Frame) /\ Head(q) = q[1] /\ Head(q) \in Frame /\ Len(q) \in Nat
        /\ Len(q) > 0 /\ Len(Tail(q)) = Len(q) - 1
        /\ \A i \in 1..Len(Tail(q)) : Tail(q)[i] = q[i + 1]
    BY <1>1, HeadTailProperties, EmptySeq
  <1>3. \A i \in DOMAIN Tail(q) : i + 1 \in DOMAIN q /\ Tail(q)[i] = q[i + 1]
    BY <1>1, <1>2
  <1>4. Rest(e) = [wire EXCEPT ![e] = Tail(q)] /\ wire \in [Ends -> Seq(Frame)]
    BY DEF Rest, TypeOK
  <1>5. 1 \in DOMAIN q
    BY <1>1, <1>2
  <1> HIDE DEF q
  <1> QED BY <1>2, <1>3, <1>4, <1>5 DEF q

-----------------------------------------------------------------------------
(* Types *)

(* Every step of a task is one that Goes somewhere, over a network it has   *)
(* read from and perhaps written to.                                        *)
LEMMA WorkGoes ==
    ASSUME TypeOK, NEW e \in Ends, Work(e) \/ FailRead(e)
    PROVE  \E ph \in Phases, w \in [Ends -> Seq(Frame)] :
              /\ Goes(e, ph, w)
              /\ \/ w = wire
                 \/ wire[e] # <<>> /\ w = Rest(e)
                 \/ /\ Reads(e, "hello") /\ ph = "proof" /\ e \in proved'
                    /\ w = Sent(Rest(e), e, Proof(e, Head(wire[e])))
  <1> USE DEF Phases
  <1>0. wire \in [Ends -> Seq(Frame)]
    BY DEF TypeOK
  <1>1. CASE ReadHello(e)
    <2>1. wire[e] # <<>>
      BY <1>1 DEF ReadHello, Reads
    <2>2. Rest(e) \in [Ends -> Seq(Frame)] /\ Proof(e, Head(wire[e])) \in Frame
      BY <2>1, RestFacts, FrameFacts
    <2>3. Sent(Rest(e), e, Proof(e, Head(wire[e]))) \in [Ends -> Seq(Frame)]
      BY <2>2, SentFacts
    <2> QED BY <1>1, <2>1, <2>2, <2>3 DEF ReadHello
  <1>2. CASE ReadProof(e)
    <2>1. wire[e] # <<>>
      BY <1>2 DEF ReadProof, Reads
    <2>2. Rest(e) \in [Ends -> Seq(Frame)]
      BY <2>1, RestFacts
    <2> QED BY <1>2, <2>1, <2>2 DEF ReadProof
  <1>3. CASE Abandon(e)
    BY <1>0, <1>3 DEF Abandon
  <1>4. CASE FindSynapse(e)
    BY <1>0, <1>4 DEF FindSynapse
  <1>5. CASE PutSynapse(e)
    BY <1>0, <1>5 DEF PutSynapse
  <1>6. CASE Admit(e)
    BY <1>0, <1>6 DEF Admit
  <1>7. CASE EndRead(e)
    BY <1>0, <1>7 DEF EndRead
  <1>8. CASE Unlist(e)
    BY <1>0, <1>8 DEF Unlist
  <1>9. CASE FailRead(e)
    BY <1>0, <1>9 DEF FailRead
  <1> QED BY <1>1, <1>2, <1>3, <1>4, <1>5, <1>6, <1>7, <1>8, <1>9 DEF Work

(* What a failure upsets are connections. *)
LEMMA UpsetFacts ==
    ASSUME TypeOK, NEW c \in Conns
    PROVE  Upset(c) \subseteq Conns /\ upset \subseteq Upset(c)
  BY DEF Upset, TypeOK

(* An end begins. *)
LEMMA BeginGoes ==
    ASSUME TypeOK, NEW e \in Ends, Begin(e)
    PROVE  /\ Sent(wire, e, Hello(e)) \in [Ends -> Seq(Frame)]
           /\ Goes(e, "hello", Sent(wire, e, Hello(e)))
           /\ "hello" \in Phases
  <1>1. wire \in [Ends -> Seq(Frame)] /\ Hello(e) \in Frame
    BY FrameFacts DEF TypeOK
  <1> QED BY <1>1, SentFacts DEF Begin, Phases

(* A connection has a dialing and a listening end. *)
LEMMA SideFacts ==
    ASSUME NEW c \in Conns
    PROVE  <<c, "dialer">> \in Ends /\ <<c, "listener">> \in Ends
  BY DEF Ends

(* Setting one entry of the session table, or of the synapses. *)
LEMMA TableFacts ==
    ASSUME TypeOK, NEW e \in Ends, NEW v \in Ends \cup {NoEnd},
           table' = [table EXCEPT ![Owner(e)][Peer(e)] = v]
    PROVE  /\ table' \in [Nodes -> [Nodes -> Ends \cup {NoEnd}]]
           /\ table'[Owner(e)][Peer(e)] = v
           /\ \A m, q \in Nodes : m # Owner(e) \/ q # Peer(e) => table'[m][q] = table[m][q]
  <1> DEFINE n == Owner(e)
             p == Peer(e)
             S == Ends \cup {NoEnd}
             r == [table[n] EXCEPT ![p] = v]
  <1>1. n \in Nodes /\ p \in Nodes /\ table \in [Nodes -> [Nodes -> S]] /\ v \in S
    BY EndFacts DEF TypeOK
  <1>2. table' = [table EXCEPT ![n] = r]
    OBVIOUS
  <1> HIDE DEF n, p, S
  <1>3. r \in [Nodes -> S] /\ r[p] = v /\ \A q \in Nodes : q # p => r[q] = table[n][q]
    BY <1>1
  <1> HIDE DEF r
  <1>4. /\ table' \in [Nodes -> [Nodes -> S]] /\ table'[n] = r
        /\ \A m \in Nodes : m # n => table'[m] = table[m]
    BY <1>1, <1>2, <1>3
  <1> QED BY <1>3, <1>4 DEF n, p, S

(* The same for the synapse rows. *)
LEMMA SynFacts ==
    ASSUME TypeOK, NEW e \in Ends, NEW v \in SUBSET Ends,
           syn' = [syn EXCEPT ![Owner(e)][Peer(e)] = v]
    PROVE  /\ syn' \in [Nodes -> [Nodes -> SUBSET Ends]]
           /\ syn'[Owner(e)][Peer(e)] = v
           /\ \A m, q \in Nodes : m # Owner(e) \/ q # Peer(e) => syn'[m][q] = syn[m][q]
  <1> DEFINE n == Owner(e)
             p == Peer(e)
             S == SUBSET Ends
             r == [syn[n] EXCEPT ![p] = v]
  <1>1. n \in Nodes /\ p \in Nodes /\ syn \in [Nodes -> [Nodes -> S]] /\ v \in S
    BY EndFacts DEF TypeOK
  <1>2. syn' = [syn EXCEPT ![n] = r]
    OBVIOUS
  <1> HIDE DEF n, p, S
  <1>3. r \in [Nodes -> S] /\ r[p] = v /\ \A q \in Nodes : q # p => r[q] = syn[n][q]
    BY <1>1
  <1> HIDE DEF r
  <1>4. /\ syn' \in [Nodes -> [Nodes -> S]] /\ syn'[n] = r
        /\ \A m \in Nodes : m # n => syn'[m] = syn[m]
    BY <1>1, <1>2, <1>3
  <1> QED BY <1>3, <1>4 DEF n, p, S

(* Which steps a task of e takes, with what they do to the rest. *)
LEMMA TypeWork ==
    ASSUME TypeOK, NEW e \in Ends, Work(e) \/ FailRead(e)
    PROVE  TypeOK'
  <1>1. /\ phase' \in [Ends -> Phases] /\ wire' \in [Ends -> Seq(Frame)]
        /\ timer' \in [Ends -> 0..Timeout]
    BY WorkGoes, GoesFacts
  <1>2. Owner(e) \in Nodes /\ Peer(e) \in Nodes /\ Conn(e) \in Conns
    BY EndFacts
  <1>3. pump' \in [Ends -> BOOLEAN]
    BY DEF Work, ReadHello, ReadProof, Abandon, FindSynapse, PutSynapse, Admit, EndRead,
           Unlist, FailRead, TypeOK
  <1>4. table' \in [Nodes -> [Nodes -> Ends \cup {NoEnd}]]
    <2>1. table' \in {table, [table EXCEPT ![Owner(e)][Peer(e)] = e],
                     [table EXCEPT ![Owner(e)][Peer(e)] = NoEnd]}
      BY DEF Work, ReadHello, ReadProof, Abandon, FindSynapse, PutSynapse, Admit,
             EndRead, Unlist, FailRead
    <2> QED BY <2>1, TableFacts DEF TypeOK
  <1>5. syn' \in [Nodes -> [Nodes -> SUBSET Ends]]
    <2>1. \/ syn' = syn
          \/ syn' = [syn EXCEPT ![Owner(e)][Peer(e)] = syn[Owner(e)][Peer(e)] \cup {e}]
      BY DEF Work, ReadHello, ReadProof, Abandon, FindSynapse, PutSynapse, Admit,
             EndRead, Unlist, FailRead
    <2>2. syn[Owner(e)][Peer(e)] \cup {e} \in SUBSET Ends
      BY <1>2 DEF TypeOK
    <2> QED BY <2>1, <2>2, SynFacts DEF TypeOK
  <1>6. cut' \subseteq Conns /\ proved' \subseteq Ends
    BY DEF Work, ReadHello, ReadProof, Abandon, FindSynapse, PutSynapse, Admit, EndRead,
           Unlist, FailRead, TypeOK
  <1>7. upset' \subseteq Conns
    BY <1>2, UpsetFacts DEF Work, ReadHello, ReadProof, Abandon, FindSynapse, PutSynapse,
           Admit, EndRead, Unlist, FailRead, TypeOK
  <1> QED BY <1>1, <1>3, <1>4, <1>5, <1>6, <1>7 DEF TypeOK

(* A dial or an accept keeps the types, ... *)
LEMMA TypeBegin ==
    ASSUME TypeOK, NEW c \in Conns, Dial(c) \/ Accept(c)
    PROVE  TypeOK'
  <1>1. PICK e \in Ends : Begin(e)
    BY SideFacts DEF Dial, Accept
  <1>2. /\ phase' \in [Ends -> Phases] /\ wire' \in [Ends -> Seq(Frame)]
        /\ timer' \in [Ends -> 0..Timeout]
    BY <1>1, BeginGoes, GoesFacts
  <1>3. upset' \subseteq Conns
    BY DEF Dial, Accept, TypeOK
  <1> QED BY <1>1, <1>2, <1>3 DEF Begin, TypeOK

(* ... a crash does, ... *)
LEMMA TypeCrash ==
    ASSUME TypeOK, NEW n \in Nodes, Crash(n)
    PROVE  TypeOK'
  <1> DEFINE mine == {e \in Ends : Owner(e) = n /\ phase[e] # "none"}
  <1>1. 0 \in 0..Timeout /\ <<>> \in Seq(Frame) /\ "done" \in Phases
    BY SessionsAssumption DEF Phases
  <1>2. phase' \in [Ends -> Phases] /\ wire' \in [Ends -> Seq(Frame)]
    BY <1>1 DEF Crash, TypeOK
  <1>3. timer' \in [Ends -> 0..Timeout] /\ pump' \in [Ends -> BOOLEAN]
    BY <1>1 DEF Crash, TypeOK
  <1>4. table' \in [Nodes -> [Nodes -> Ends \cup {NoEnd}]]
    BY DEF Crash, TypeOK
  <1>5. syn' \in [Nodes -> [Nodes -> SUBSET Ends]]
    BY DEF Crash, TypeOK
  <1>6. upset' \subseteq Conns
    <2>1. upset' = UNION {Upset(Conn(e)) : e \in mine}
      BY DEF Crash
    <2>2. \A e \in mine : Upset(Conn(e)) \subseteq Conns
      BY EndFacts, UpsetFacts
    <2> QED BY <2>1, <2>2
  <1>7. cut' = cut /\ proved' = proved
    BY DEF Crash
  <1> QED BY <1>2, <1>3, <1>4, <1>5, <1>6, <1>7 DEF TypeOK

(* ... and every step. *)
LEMMA TypeNext == TypeOK /\ [Next]_vars => TypeOK'
  <1> SUFFICES ASSUME TypeOK, [Next]_vars PROVE TypeOK'
    OBVIOUS
  <1>1. ASSUME NEW c \in Conns, Cut(c) PROVE TypeOK'
    BY <1>1, UpsetFacts DEF Cut, TypeOK
  <1>2. ASSUME NEW e \in Ends, PumpBreaks(e) PROVE TypeOK'
    BY <1>2 DEF PumpBreaks, TypeOK
  <1>3. CASE Tick
    <2>1. timer' \in [Ends -> 0..Timeout]
      BY <1>3, SessionsAssumption DEF Tick, TypeOK
    <2> QED BY <1>3, <2>1 DEF Tick, TypeOK
  <1>4. CASE UNCHANGED vars
    BY <1>4 DEF vars, TypeOK
  <1> QED BY <1>1, <1>2, <1>3, <1>4, TypeBegin, TypeWork, TypeCrash DEF Next

(* The types hold at the start. *)
LEMMA TypeInit == Init => TypeOK
  <1>1. 0 \in 0..Timeout /\ <<>> \in Seq(Frame)
    BY SessionsAssumption
  <1> QED BY <1>1 DEF Init, TypeOK, Phases

(* Sessions are well typed: every table entry names an end of a connection, *)
(* no timer passes HANDSHAKE_TIMEOUT, and only dialed connections are cut.  *)
THEOREM TypeCorrect == Spec => []TypeOK
  BY TypeInit, TypeNext, PTL DEF Spec

-----------------------------------------------------------------------------
(* The handshake *)

(* A frame on its way to x was written by the other end, which has begun:   *)
(* its hello carries its own challenge, its proof answers that of x.        *)
Carries(x, f) ==
    /\ f.from = Peer(x) /\ phase[Other(x)] # "none"
    /\ f.kind = "hello" => f.challenge = Other(x)
    /\ f.kind = "proof" => f.challenge = x /\ Other(x) \in proved

Wired == \A x \in Ends : \A i \in DOMAIN wire[x] : Carries(x, wire[x][i])

(* An end that waits for the proof, or is beyond it, has given its own to   *)
(* another node; nobody answers an end that has not begun, and no listener  *)
(* begins before it is dialed.                                              *)
Shaken ==
    \A e \in Ends : phase[e] \in {"proof"} \cup Authenticated
                       => e \in proved /\ Owner(e) # Peer(e)

Begun ==
    /\ \A e \in proved : phase[Other(e)] # "none"
    /\ \A c \in Conns : phase[<<c, "listener">>] # "none" => phase[<<c, "dialer">>] # "none"

HInv == TypeOK /\ Wired /\ Shaken /\ Begun /\ Agreement

(* What a step never takes back. *)
LEMMA Monotone ==
    ASSUME TypeOK, [Next]_vars
    PROVE  /\ proved \subseteq proved' /\ cut \subseteq cut' /\ upset \subseteq upset'
           /\ \A e \in Ends : phase[e] # "none" => phase'[e] # "none"
  <1>1. ASSUME NEW c \in Conns, Dial(c) \/ Accept(c)
        PROVE  /\ proved \subseteq proved' /\ cut \subseteq cut' /\ upset \subseteq upset'
               /\ \A e \in Ends : phase[e] # "none" => phase'[e] # "none"
    BY <1>1, SideFacts, BeginGoes, GoesFacts, ZenonT(40) DEF Dial, Accept, Begin
  <1>2. ASSUME NEW c \in Conns, Cut(c)
        PROVE  /\ proved \subseteq proved' /\ cut \subseteq cut' /\ upset \subseteq upset'
               /\ phase' = phase
    BY <1>2, UpsetFacts DEF Cut
  <1>3. ASSUME NEW e \in Ends, Work(e) \/ FailRead(e)
        PROVE  /\ proved \subseteq proved' /\ cut \subseteq cut' /\ upset \subseteq upset'
               /\ \A x \in Ends : phase[x] # "none" => phase'[x] # "none"
    <2>1. PICK ph \in Phases, w \in [Ends -> Seq(Frame)] : Goes(e, ph, w)
      BY <1>3, WorkGoes
    <2>2. phase'[e] # "none"
      BY <1>3 DEF Work, ReadHello, ReadProof, Abandon, FindSynapse, PutSynapse, Admit,
                  EndRead, Unlist, FailRead, Goes, TypeOK
    <2>3. \A x \in Ends : phase[x] # "none" => phase'[x] # "none"
      BY <2>1, <2>2, GoesFacts
    <2>4. proved \subseteq proved' /\ cut \subseteq cut'
      BY <1>3 DEF Work, ReadHello, ReadProof, Abandon, FindSynapse, PutSynapse, Admit,
                  EndRead, Unlist, FailRead
    <2>5. upset \subseteq upset'
      BY <1>3, UpsetFacts, EndFacts
         DEF Work, ReadHello, ReadProof, Abandon, FindSynapse, PutSynapse, Admit,
             EndRead, Unlist, FailRead
    <2> QED BY <2>3, <2>4, <2>5
  <1>4. ASSUME NEW e \in Ends, PumpBreaks(e) PROVE UNCHANGED <<proved, cut, upset, phase>>
    BY <1>4 DEF PumpBreaks
  <1>5. CASE Tick
    BY <1>5 DEF Tick
  <1>6. ASSUME NEW n \in Nodes, Crash(n)
        PROVE  /\ proved \subseteq proved' /\ cut \subseteq cut' /\ upset \subseteq upset'
               /\ \A e \in Ends : phase[e] # "none" => phase'[e] # "none"
    <2> DEFINE mine == {e \in Ends : Owner(e) = n /\ phase[e] # "none"}
    <2>1. PICK e \in mine : phase[e] # "done"
      BY <1>6 DEF Crash
    <2>2. upset \subseteq Upset(Conn(e))
      BY <2>1, EndFacts, UpsetFacts
    <2>3. upset' = UNION {Upset(Conn(x)) : x \in mine}
      BY <1>6 DEF Crash
    <2>4. upset \subseteq upset'
      BY <2>1, <2>2, <2>3
    <2>5. phase' = [x \in Ends |-> IF x \in mine THEN "done" ELSE phase[x]]
      BY <1>6 DEF Crash
    <2> QED BY <1>6, <2>4, <2>5 DEF Crash
  <1> QED BY <1>1, <1>2, <1>3, <1>4, <1>5, <1>6 DEF Next, vars

(* Every frame on the wire after a step was there before, or is the hello   *)
(* of an end that begins, or the proof of one that has read a hello.        *)
LEMMA FramesNext ==
    ASSUME TypeOK, [Next]_vars, NEW x \in Ends, NEW i \in DOMAIN wire'[x]
    PROVE  LET f == wire'[x][i]
               o == Other(x)
           IN  \/ \E j \in DOMAIN wire[x] : f = wire[x][j]
               \/ f = Hello(o) /\ phase'[o] # "none"
               \/ /\ Reads(o, "hello") /\ o \in proved'
                  /\ f = Proof(o, Head(wire[o]))
  <1> DEFINE f == wire'[x][i]
             o == Other(x)
             Old == \E j \in DOMAIN wire[x] : f = wire[x][j]
             Greets == f = Hello(o) /\ phase'[o] # "none"
             Answers == Reads(o, "hello") /\ o \in proved' /\ f = Proof(o, Head(wire[o]))
  <1>0. o \in Ends /\ Other(o) = x /\ wire \in [Ends -> Seq(Frame)]
    BY EndFacts DEF TypeOK
  <1> HIDE DEF f, o, Old, Greets, Answers
  <1>a. f = wire'[x][i] /\ o = Other(x) /\ \A e \in Ends : x = Other(e) => e = o
    BY EndFacts DEF f, o
  <1>b. wire'[x] = wire[x] => Old
    BY DEF Old, f
  <1>c. wire'[x] # <<>>
    OBVIOUS
  <1>1. ASSUME NEW c \in Conns, Dial(c) \/ Accept(c) PROVE Old \/ Greets
    <2>1. PICK e \in Ends : Begin(e)
      BY <1>1, SideFacts DEF Dial, Accept
    <2> DEFINE w == Sent(wire, e, Hello(e))
    <2>2. w \in [Ends -> Seq(Frame)] /\ Goes(e, "hello", w) /\ "hello" \in Phases
      BY <2>1, BeginGoes
    <2>3. phase'[e] = "hello" /\ wire'[x] = w[x]
      BY <2>2, GoesFacts
    <2>4. CASE x = Other(e)
      <3>1. f = Hello(e) \/ \E j \in DOMAIN wire[Other(e)] : f = wire[Other(e)][j]
        BY <1>0, <1>a, <2>3, <2>4, SentFacts, FrameFacts
      <3> QED BY <3>1, <1>a, <2>3, <2>4 DEF Old, Greets
    <2>5. CASE x # Other(e)
      <3>1. w[x] = wire[x]
        BY <1>0, <2>5, SentFacts, FrameFacts
      <3> QED BY <3>1, <2>3, <1>b
    <2> QED BY <2>4, <2>5
  <1>2. ASSUME NEW e \in Ends, Work(e) \/ FailRead(e) PROVE Old \/ Answers
    <2>1. PICK ph \in Phases, w \in [Ends -> Seq(Frame)] :
              /\ Goes(e, ph, w)
              /\ \/ w = wire
                 \/ wire[e] # <<>> /\ w = Rest(e)
                 \/ /\ Reads(e, "hello") /\ ph = "proof" /\ e \in proved'
                    /\ w = Sent(Rest(e), e, Proof(e, Head(wire[e])))
      BY <1>2, WorkGoes
    <2>2. wire'[x] = w[x]
      BY <2>1, <1>c, GoesFacts
    <2>3. CASE w = wire
      BY <2>2, <2>3, <1>b
    <2>4. CASE wire[e] # <<>> /\ w = Rest(e)
      BY <2>2, <2>4, <1>a, RestFacts DEF Old
    <2>5. CASE /\ Reads(e, "hello") /\ ph = "proof" /\ e \in proved'
               /\ w = Sent(Rest(e), e, Proof(e, Head(wire[e])))
      <3> DEFINE p == Proof(e, Head(wire[e]))
      <3>1. wire[e] # <<>>
        BY <2>5 DEF Reads
      <3>2. Rest(e) \in [Ends -> Seq(Frame)] /\ p \in Frame
        BY <3>1, RestFacts, FrameFacts
      <3>3. \A y \in Ends : \A k \in DOMAIN Rest(e)[y] :
               \E j \in DOMAIN wire[y] : Rest(e)[y][k] = wire[y][j]
        BY <3>1, RestFacts
      <3>4. (f = p /\ x = Other(e)) \/ \E k \in DOMAIN Rest(e)[x] : f = Rest(e)[x][k]
        <4> HIDE DEF p
        <4>1. w = Sent(Rest(e), e, p) /\ i \in DOMAIN w[x] /\ f = w[x][i]
          BY <2>2, <2>5, <1>a DEF p
        <4>2. CASE x = Other(e)
          <5> DEFINE r == Rest(e)
          <5>1. r \in [Ends -> Seq(Frame)]
            BY <3>2
          <5> HIDE DEF r
          <5>2. \A k \in DOMAIN Sent(r, e, p)[Other(e)] :
                   \/ Sent(r, e, p)[Other(e)][k] = p
                   \/ \E j \in DOMAIN r[Other(e)] : Sent(r, e, p)[Other(e)][k] = r[Other(e)][j]
            BY <5>1, <3>2, SentFacts
          <5> QED BY <4>1, <4>2, <5>2 DEF r
        <4>3. CASE x # Other(e)
          BY <4>1, <4>3, <3>2, SentFacts, ZenonT(40)
        <4> QED BY <4>2, <4>3
      <3>5. CASE f = p /\ x = Other(e)
        BY <3>5, <1>a, <2>5 DEF Answers
      <3>6. CASE \E k \in DOMAIN Rest(e)[x] : f = Rest(e)[x][k]
        BY <3>6, <3>3 DEF Old
      <3> QED BY <3>4, <3>5, <3>6
    <2> QED BY <2>1, <2>3, <2>4, <2>5
  <1>3. ASSUME NEW n \in Nodes, Crash(n) PROVE Old
    <2>1. wire'[x] = wire[x]
      BY <1>3, <1>c DEF Crash
    <2> QED BY <2>1, <1>b
  <1>4. CASE UNCHANGED wire
    BY <1>4, <1>b
  <1>5. \A c \in Conns : Cut(c) => UNCHANGED wire
    BY DEF Cut
  <1>6. \A e \in Ends : PumpBreaks(e) => UNCHANGED wire
    BY DEF PumpBreaks
  <1>7. Tick \/ UNCHANGED vars => UNCHANGED wire
    BY DEF Tick, vars
  <1> QED BY <1>1, <1>2, <1>3, <1>4, <1>5, <1>6, <1>7 DEF Next, f, o, Old, Greets, Answers

(* Frames under way stay those of the end that sent them. *)
LEMMA WiredNext ==
    ASSUME HInv, [Next]_vars
    PROVE  Wired'
  <1> SUFFICES ASSUME NEW x \in Ends, NEW i \in DOMAIN wire'[x]
               PROVE  Carries(x, wire[x][i])'
    BY DEF Wired
  <1> DEFINE f == wire'[x][i]
             o == Other(x)
  <1>1. o \in Ends /\ Owner(o) = Peer(x) /\ Other(o) = x
    BY EndFacts
  <1>2. proved \subseteq proved' /\ (phase[o] # "none" => phase'[o] # "none")
    BY <1>1, Monotone DEF HInv
  <1>3. \/ \E j \in DOMAIN wire[x] : f = wire[x][j]
        \/ f = Hello(o) /\ phase'[o] # "none"
        \/ Reads(o, "hello") /\ o \in proved' /\ f = Proof(o, Head(wire[o]))
    BY FramesNext DEF HInv
  <1> HIDE DEF f, o
  <1>4. CASE \E j \in DOMAIN wire[x] : f = wire[x][j]
    <2>1. Carries(x, f)
      BY <1>4 DEF HInv, Wired
    <2> QED BY <2>1, <1>2 DEF Carries, f, o
  <1>5. CASE f = Hello(o) /\ phase'[o] # "none"
    BY <1>1, <1>5 DEF Carries, Hello, f, o
  <1>6. CASE Reads(o, "hello") /\ o \in proved' /\ f = Proof(o, Head(wire[o]))
    <2>1. Carries(o, Head(wire[o])) /\ Head(wire[o]).kind = "hello" /\ phase[o] = "hello"
      BY <1>1, <1>6, RestFacts DEF Reads, HInv, Wired
    <2>2. Head(wire[o]).challenge = x
      BY <1>1, <2>1 DEF Carries
    <2> QED BY <1>1, <1>2, <1>6, <2>1, <2>2 DEF Carries, Proof, f, o
  <1> QED BY <1>3, <1>4, <1>5, <1>6 DEF f

(* An end reaches the proof by answering a foreign hello, and goes beyond   *)
(* it by reading one.                                                       *)
LEMMA PhaseNext ==
    ASSUME HInv, [Next]_vars, NEW e \in Ends, phase'[e] # phase[e]
    PROVE  \/ phase'[e] = "hello" /\ phase[e] = "none"
           \/ phase'[e] = "proof" /\ ReadHello(e) /\ e \in proved' /\ Owner(e) # Peer(e)
           \/ phase'[e] = "form" /\ ReadProof(e) /\ Other(e) \in proved
           \/ phase'[e] \in Authenticated /\ phase[e] \in Authenticated
           \/ phase'[e] = "done"
  <1>0. TypeOK
    BY DEF HInv
  <1>1. ASSUME NEW c \in Conns, Dial(c) \/ Accept(c)
        PROVE  phase'[e] = "hello" /\ phase[e] = "none"
    <2>1. PICK x \in Ends : Begin(x)
      BY <1>1, SideFacts DEF Dial, Accept
    <2>2. phase'[x] = "hello" /\ \A y \in Ends : y # x => phase'[y] = phase[y]
      BY <1>0, <2>1, BeginGoes, GoesFacts
    <2> QED BY <2>1, <2>2 DEF Begin
  <1>2. ASSUME NEW x \in Ends, Work(x) \/ FailRead(x) PROVE e = x
    BY <1>0, <1>2, WorkGoes, GoesFacts
  <1>3. CASE ReadHello(e)
    <2>1. /\ Reads(e, "hello") /\ wire[e] # <<>>
      BY <1>3 DEF ReadHello, Reads
    <2>2. Carries(e, Head(wire[e]))
      BY <2>1, RestFacts DEF HInv, Wired
    <2>3. CASE OwnIdentity(Head(wire[e]), e)
      BY <1>0, <1>3, <2>3 DEF ReadHello, Goes, TypeOK
    <2>4. CASE ~OwnIdentity(Head(wire[e]), e)
      BY <1>0, <1>3, <2>2, <2>4 DEF ReadHello, Goes, TypeOK, OwnIdentity, Carries
    <2> QED BY <2>3, <2>4
  <1>4. CASE ReadProof(e)
    <2>1. wire[e] # <<>> /\ Head(wire[e]).kind = "proof"
      BY <1>4 DEF ReadProof, Reads
    <2>2. Carries(e, Head(wire[e]))
      BY <2>1, RestFacts DEF HInv, Wired
    <2>3. phase'[e] \in {"form", "done"}
      BY <1>0, <1>4 DEF ReadProof, Goes, TypeOK
    <2> QED BY <1>4, <2>1, <2>2, <2>3 DEF Carries
  <1>5. CASE Abandon(e) \/ FindSynapse(e) \/ PutSynapse(e) \/ Admit(e) \/ EndRead(e)
             \/ Unlist(e) \/ FailRead(e)
    BY <1>0, <1>5 DEF Abandon, FindSynapse, PutSynapse, Admit, EndRead, Unlist, FailRead,
                      Goes, TypeOK, Authenticated
  <1>6. ASSUME NEW n \in Nodes, Crash(n) PROVE phase'[e] = "done"
    BY <1>6 DEF Crash
  <1>7. UNCHANGED phase => FALSE
    OBVIOUS
  <1>8. \A x \in Ends : PumpBreaks(x) => UNCHANGED phase
    BY DEF PumpBreaks
  <1>9. \A c \in Conns : Cut(c) => UNCHANGED phase
    BY DEF Cut
  <1>10. Tick \/ UNCHANGED vars => UNCHANGED phase
    BY DEF Tick, vars
  <1>11. Next
    BY <1>7, <1>10
  <1>12. CASE \E c \in Conns : Dial(c) \/ Accept(c)
    BY <1>1, <1>12
  <1>13. CASE \E x \in Ends : Work(x) \/ FailRead(x)
    <2>1. Work(e) \/ FailRead(e)
      BY <1>2, <1>13
    <2> QED BY <2>1, <1>3, <1>4, <1>5 DEF Work
  <1>14. CASE \E n \in Nodes : Crash(n)
    BY <1>6, <1>14
  <1> QED BY <1>7, <1>8, <1>9, <1>10, <1>11, <1>12, <1>13, <1>14 DEF Next

(* Only an end that begins or has begun answers. *)
LEMMA ProvedNext ==
    ASSUME HInv, [Next]_vars, NEW e \in proved' \ proved
    PROVE  e \in Ends /\ ReadHello(e)
  <1>1. \A x \in Ends : FailRead(x) \/ PumpBreaks(x) => UNCHANGED proved
    BY DEF FailRead, PumpBreaks
  <1>2. \A c \in Conns : Dial(c) \/ Accept(c) \/ Cut(c) => UNCHANGED proved
    BY DEF Dial, Accept, Begin, Cut
  <1>3. \A n \in Nodes : Crash(n) => UNCHANGED proved
    BY DEF Crash
  <1>4. Tick \/ UNCHANGED vars => UNCHANGED proved
    BY DEF Tick, vars
  <1>5. PICK x \in Ends : Work(x)
    BY <1>1, <1>2, <1>3, <1>4 DEF Next
  <1>6. ReadHello(x)
    BY <1>5 DEF Work, ReadProof, Abandon, FindSynapse, PutSynapse, Admit, EndRead, Unlist
  <1> QED BY <1>6 DEF ReadHello

(* HInv is inductive. *)
LEMMA HandshakeNext == HInv /\ [Next]_vars => HInv'
  <1> SUFFICES ASSUME HInv, [Next]_vars PROVE HInv'
    OBVIOUS
  <1>0. TypeOK
    BY DEF HInv
  <1>1. TypeOK' /\ Wired'
    BY TypeNext, WiredNext DEF HInv
  <1>2. proved \subseteq proved' /\ \A e \in Ends : phase[e] # "none" => phase'[e] # "none"
    BY <1>0, Monotone
  <1>3. ASSUME NEW e \in Ends
        PROVE  /\ phase'[e] \in {"proof"} \cup Authenticated
                     => e \in proved' /\ Owner(e) # Peer(e)
               /\ phase'[e] \in Authenticated
                     => {e, Other(e)} \subseteq proved' /\ Owner(e) # Peer(e)
    <2>1. CASE phase'[e] = phase[e]
      BY <2>1, <1>2 DEF HInv, Shaken, Agreement
    <2>2. CASE phase'[e] = "hello" \/ phase'[e] = "done"
      BY <2>2 DEF Authenticated
    <2>3. CASE phase'[e] = "proof" /\ e \in proved' /\ Owner(e) # Peer(e)
      BY <2>3 DEF Authenticated
    <2>4. CASE phase'[e] = "form" /\ ReadProof(e) /\ Other(e) \in proved
      <3>1. phase[e] = "proof"
        BY <2>4 DEF ReadProof, Reads
      <3> QED BY <2>4, <3>1, <1>2 DEF HInv, Shaken
    <2>5. CASE phase[e] \in Authenticated
      BY <2>5, <1>2 DEF HInv, Agreement
    <2> QED BY <2>1, <2>2, <2>3, <2>4, <2>5, PhaseNext
  <1>4. Shaken' /\ Agreement'
    BY <1>3 DEF Shaken, Agreement
  <1>5. ASSUME NEW e \in proved' PROVE phase'[Other(e)] # "none"
    <2>1. e \in Ends
      BY <1>1, <1>5 DEF TypeOK
    <2>2. CASE e \in proved
      BY <2>1, <2>2, <1>2, EndFacts DEF HInv, Begun
    <2>3. CASE e \notin proved
      <3>1. ReadHello(e)
        BY <2>3, ProvedNext
      <3>2. wire[e] # <<>>
        BY <3>1 DEF ReadHello, Reads
      <3>3. Carries(e, Head(wire[e]))
        BY <3>2, <2>1, RestFacts DEF HInv, Wired
      <3> QED BY <3>3, <2>1, <1>2, EndFacts DEF Carries
    <2> QED BY <2>2, <2>3
  <1>6. ASSUME NEW c \in Conns, phase'[<<c, "listener">>] # "none"
        PROVE  phase'[<<c, "dialer">>] # "none"
    <2> DEFINE d == <<c, "dialer">>
               l == <<c, "listener">>
    <2>0. d \in Ends /\ l \in Ends
      BY SideFacts
    <2>1. CASE phase[l] # "none"
      BY <2>0, <2>1, <1>2 DEF HInv, Begun
    <2>2. CASE phase[l] = "none"
      <3>1. phase'[l] # phase[l]
        BY <1>6, <2>2
      <3>2. phase[l] \notin Authenticated
        BY <2>2 DEF Authenticated
      <3>3. phase'[l] \in {"hello", "done"}
        BY <2>0, <2>2, <3>1, <3>2, PhaseNext DEF ReadHello, ReadProof, Reads
      <3>4. \E b \in Conns : Accept(b) /\ b = c
        <4>1. ~(UNCHANGED phase)
          BY <3>1
        <4>2. ~(Tick \/ UNCHANGED vars)
          BY <4>1 DEF Tick, vars
        <4>3. \A x \in Ends : ~PumpBreaks(x)
          BY <4>1 DEF PumpBreaks
        <4>4. \A b \in Conns : ~Cut(b)
          BY <4>1 DEF Cut
        <4>5. ASSUME NEW x \in Ends, Work(x) \/ FailRead(x) PROVE FALSE
          <5>1. x = l
            BY <1>0, <3>1, <2>0, <4>5, WorkGoes, GoesFacts
          <5> QED BY <5>1, <4>5, <2>2 DEF Work, ReadHello, ReadProof, Reads, Abandon, Shaking,
                     FindSynapse, PutSynapse, Admit, EndRead, Unlist, FailRead
        <4>6. \A n \in Nodes : Crash(n) => FALSE
          BY <2>0, <2>2, <3>1 DEF Crash
        <4>7. ASSUME NEW b \in Conns, Dial(b) PROVE FALSE
          <5>1. phase'[<<b, "dialer">>] = "hello"
                /\ \A y \in Ends : y # <<b, "dialer">> => phase'[y] = phase[y]
            BY <1>0, <4>7, SideFacts, BeginGoes, GoesFacts DEF Dial
          <5> QED BY <5>1, <2>0, <3>1
        <4>8. PICK b \in Conns : Accept(b)
          BY <4>2, <4>3, <4>4, <4>5, <4>6, <4>7 DEF Next
        <4>9. \A y \in Ends : y # <<b, "listener">> => phase'[y] = phase[y]
          BY <1>0, <4>8, SideFacts, BeginGoes, GoesFacts DEF Accept
        <4> QED BY <4>8, <4>9, <2>0, <3>1
      <3>5. phase[d] # "none"
        BY <3>4 DEF Accept
      <3> QED BY <3>5, <2>0, <1>2
    <2> QED BY <2>1, <2>2
  <1> QED BY <1>1, <1>4, <1>5, <1>6 DEF HInv, Begun

(* It holds at the start. *)
LEMMA HandshakeInit == Init => HInv
  <1> SUFFICES ASSUME Init PROVE HInv
    OBVIOUS
  <1>1. \A x \in Ends : phase[x] = "none" /\ wire[x] = <<>>
    BY DEF Init
  <1>2. Wired
    BY <1>1 DEF Wired
  <1>3. Shaken /\ Agreement
    BY <1>1 DEF Shaken, Agreement, Authenticated
  <1>4. Begun
    BY <1>1, SideFacts DEF Begun, Init
  <1> QED BY <1>2, <1>3, <1>4, TypeInit DEF HInv

(* Authentication is mutual (handshake()): an end that goes beyond the      *)
(* handshake has answered the other's challenge and been answered by        *)
(* another node on the same connection, for any number of nodes and         *)
(* connections and whatever times out, breaks or crashes.                   *)
THEOREM MutualAuthentication == Spec => []Agreement
  <1>1. HInv => Agreement
    BY DEF HInv
  <1> QED BY <1>1, HandshakeInit, HandshakeNext, PTL DEF Spec

-----------------------------------------------------------------------------
(* The session table *)

(* Two ends whose entry is the same belong to the same node and peer. *)
LEMMA EntryMoves ==
    ASSUME TypeOK, NoGhost, NEW e \in Ends, NEW v \in Ends \cup {NoEnd},
           table' = [table EXCEPT ![Owner(e)][Peer(e)] = v]
    PROVE  /\ \A n, p \in Nodes : table'[n][p] = table[n][p] \/ (n = Owner(e) /\ p = Peer(e))
           /\ \A f \in Ends : f # Entry(e) /\ Entry(f) = f => table'[Owner(f)][Peer(f)] = f
           /\ table'[Owner(e)][Peer(e)] = v
  <1>1. /\ table'[Owner(e)][Peer(e)] = v
        /\ \A m, q \in Nodes : m # Owner(e) \/ q # Peer(e) => table'[m][q] = table[m][q]
    BY TableFacts
  <1>2. \A n, p \in Nodes : table'[n][p] = table[n][p] \/ (n = Owner(e) /\ p = Peer(e))
    BY <1>1
  <1>3. ASSUME NEW f \in Ends, f # Entry(e), Entry(f) = f
        PROVE  table'[Owner(f)][Peer(f)] = f
    <2>1. Owner(f) \in Nodes /\ Peer(f) \in Nodes
      BY EndFacts
    <2>2. ~(Owner(f) = Owner(e) /\ Peer(f) = Peer(e))
      BY <1>3 DEF Entry
    <2> QED BY <1>2, <1>3, <2>1, <2>2 DEF Entry
  <1> QED BY <1>1, <1>2, <1>3

(* The steps of a task leave no ghosts, ... *)
LEMMA NoGhostWork ==
    ASSUME TypeOK, NoGhost, NEW e \in Ends, Work(e) \/ FailRead(e)
    PROVE  NoGhost'
  <1> DEFINE Kept == \A x \in Ends : x # e => phase'[x] = phase[x]
  <1>1. Kept
    BY WorkGoes, GoesFacts
  <1>2. \A n, p \in Nodes : table[n][p] # NoEnd => table[n][p] \in Ends
    BY DEF TypeOK
  <1>3. Owner(e) \in Nodes /\ Peer(e) \in Nodes /\ e # NoEnd
    BY EndFacts
  <1>4. CASE Admit(e) /\ ~Taken(e)
    <2>1. /\ table' = [table EXCEPT ![Owner(e)][Peer(e)] = e]
          /\ pump' = [f \in Ends |-> f = e \/ (pump[f] /\ f # Entry(e))]
          /\ phase'[e] = "open" /\ phase[e] = "admit"
      BY <1>4 DEF Admit, Goes, TypeOK
    <2>2. /\ \A n, p \in Nodes : table'[n][p] = table[n][p] \/ (n = Owner(e) /\ p = Peer(e))
          /\ \A f \in Ends : f # Entry(e) /\ Entry(f) = f => table'[Owner(f)][Peer(f)] = f
          /\ table'[Owner(e)][Peer(e)] = e
      BY <2>1, EntryMoves
    <2>3. ASSUME NEW n \in Nodes, NEW p \in Nodes, table'[n][p] # NoEnd
          PROVE  /\ Owner(table'[n][p]) = n /\ Peer(table'[n][p]) = p
                 /\ phase'[table'[n][p]] \in {"open", "closing"}
      <3>1. CASE n = Owner(e) /\ p = Peer(e)
        BY <3>1, <2>1, <2>2
      <3>2. CASE table'[n][p] = table[n][p]
        BY <3>2, <2>3, <2>1, <1>1, <1>2 DEF NoGhost
      <3> QED BY <3>1, <3>2, <2>2
    <2>4. ASSUME NEW f \in Ends, pump'[f] PROVE table'[Owner(f)][Peer(f)] = f
      BY <2>1, <2>2, <2>4 DEF NoGhost
    <2> QED BY <2>3, <2>4 DEF NoGhost, Entry
  <1>5. CASE Unlist(e)
    <2>1. /\ table' = [table EXCEPT ![Owner(e)][Peer(e)] = NoEnd]
          /\ pump' = [f \in Ends |-> pump[f] /\ f # e /\ f # Entry(e)]
      BY <1>5 DEF Unlist
    <2>2. /\ \A n, p \in Nodes : table'[n][p] = table[n][p] \/ (n = Owner(e) /\ p = Peer(e))
          /\ \A f \in Ends : f # Entry(e) /\ Entry(f) = f => table'[Owner(f)][Peer(f)] = f
          /\ table'[Owner(e)][Peer(e)] = NoEnd
      BY <2>1, EntryMoves
    <2>3. ASSUME NEW n \in Nodes, NEW p \in Nodes, table'[n][p] # NoEnd
          PROVE  /\ Owner(table'[n][p]) = n /\ Peer(table'[n][p]) = p
                 /\ phase'[table'[n][p]] \in {"open", "closing"}
      BY <2>2, <2>3, <1>1, <1>2 DEF NoGhost
    <2>4. ASSUME NEW f \in Ends, pump'[f] PROVE table'[Owner(f)][Peer(f)] = f
      BY <2>1, <2>2, <2>4 DEF NoGhost
    <2> QED BY <2>3, <2>4 DEF NoGhost, Entry
  <1>6. CASE UNCHANGED <<pump, table>> /\ (phase[e] \in {"open", "closing"} => phase'[e] = "closing")
    <2>1. \A x \in Ends : phase[x] \in {"open", "closing"} => phase'[x] \in {"open", "closing"}
      BY <1>1, <1>6
    <2> QED BY <2>1, <1>2, <1>6 DEF NoGhost, Entry
  <1>7. ReadHello(e) \/ ReadProof(e) \/ Abandon(e) \/ FindSynapse(e) \/ PutSynapse(e)
           \/ (Admit(e) /\ Taken(e)) \/ EndRead(e) \/ FailRead(e)
        => UNCHANGED <<pump, table>> /\ (phase[e] \in {"open", "closing"} => phase'[e] = "closing")
    BY DEF ReadHello, ReadProof, Reads, Abandon, Shaking, FindSynapse, PutSynapse, Admit,
           EndRead, FailRead, Goes, TypeOK
  <1> QED BY <1>4, <1>5, <1>6, <1>7 DEF Work

(* ... nor does any other step. *)
LEMMA NoGhostNext == TypeOK /\ NoGhost /\ [Next]_vars => NoGhost'
  <1> SUFFICES ASSUME TypeOK, NoGhost, [Next]_vars PROVE NoGhost'
    OBVIOUS
  <1>0. \A n, p \in Nodes : table[n][p] # NoEnd => table[n][p] \in Ends
    BY DEF TypeOK
  <1>1. ASSUME NEW c \in Conns, Dial(c) \/ Accept(c) PROVE NoGhost'
    <2>1. PICK e \in Ends : Begin(e)
      BY <1>1, SideFacts DEF Dial, Accept
    <2>2. \A y \in Ends : y # e => phase'[y] = phase[y]
      BY <2>1, BeginGoes, GoesFacts
    <2>3. \A n, p \in Nodes : table[n][p] # NoEnd => table[n][p] # e
      BY <2>1 DEF Begin, NoGhost
    <2> QED BY <1>0, <2>1, <2>2, <2>3 DEF Begin, NoGhost, Entry
  <1>2. ASSUME NEW c \in Conns, Cut(c) PROVE NoGhost'
    BY <1>2 DEF Cut, NoGhost, Entry
  <1>3. ASSUME NEW e \in Ends, PumpBreaks(e) PROVE NoGhost'
    BY <1>3 DEF PumpBreaks, NoGhost, Entry, TypeOK
  <1>4. CASE Tick \/ UNCHANGED vars
    BY <1>4 DEF Tick, vars, NoGhost, Entry
  <1>5. ASSUME NEW n \in Nodes, Crash(n) PROVE NoGhost'
    <2> DEFINE mine == {e \in Ends : Owner(e) = n /\ phase[e] # "none"}
    <2>1. /\ phase' = [e \in Ends |-> IF e \in mine THEN "done" ELSE phase[e]]
          /\ pump' = [e \in Ends |-> pump[e] /\ e \notin mine]
          /\ table' = [table EXCEPT ![n] = [p \in Nodes |-> NoEnd]]
      BY <1>5 DEF Crash
    <2>2. \A m, p \in Nodes : table'[m][p] = IF m = n THEN NoEnd ELSE table[m][p]
      BY <2>1 DEF TypeOK
    <2>3. ASSUME NEW m \in Nodes, NEW p \in Nodes, table'[m][p] # NoEnd
          PROVE  /\ Owner(table'[m][p]) = m /\ Peer(table'[m][p]) = p
                 /\ phase'[table'[m][p]] \in {"open", "closing"}
      <3>1. m # n /\ table'[m][p] = table[m][p] /\ table[m][p] \in Ends
        BY <2>2, <2>3, <1>0
      <3>2. Owner(table[m][p]) = m /\ Peer(table[m][p]) = p /\ phase[table[m][p]] \in {"open", "closing"}
        BY <2>3, <3>1 DEF NoGhost
      <3> QED BY <2>1, <3>1, <3>2
    <2>4. ASSUME NEW f \in Ends, pump'[f] PROVE table'[Owner(f)][Peer(f)] = f
      <3>1. pump[f] /\ f \notin mine
        BY <2>1, <2>4
      <3>2. table[Owner(f)][Peer(f)] = f /\ f # NoEnd /\ Owner(f) \in Nodes /\ Peer(f) \in Nodes
        BY <3>1, EndFacts DEF NoGhost, Entry
      <3>3. phase[f] \in {"open", "closing"}
        BY <3>2 DEF NoGhost
      <3> QED BY <2>2, <3>1, <3>2, <3>3
    <2> QED BY <2>3, <2>4 DEF NoGhost, Entry
  <1> QED BY <1>1, <1>2, <1>3, <1>4, <1>5, NoGhostWork DEF Next

(* There are none at the start. *)
LEMMA NoGhostInit == Init => NoGhost
  BY DEF Init, NoGhost

(* No ghosts (run_session): every session in the table is being read by a   *)
(* running task of the same node, and every pump that still takes signals   *)
(* for a peer is the one the table names, over any number of connections,   *)
(* duplicates, replacements, failures and crashes.                          *)
THEOREM SessionsAreReal == Spec => []NoGhost
  <1>1. Init => TypeOK /\ NoGhost
    BY TypeInit, NoGhostInit
  <1>2. (TypeOK /\ NoGhost) /\ [Next]_vars => (TypeOK /\ NoGhost)'
    BY TypeNext, NoGhostNext
  <1> QED BY <1>1, <1>2, PTL DEF Spec

-----------------------------------------------------------------------------
(* Synapses *)

(* With the unique index a peer has no synapse record or a single one. *)
Single == \A n, p \in Nodes : syn[n][p] = {} \/ \E e \in Ends : syn[n][p] = {e}

(* The unique index keeps every synapse single. *)
LEMMA SingleNext == Sqlite /\ TypeOK /\ Single /\ [Next]_vars => Single'
  <1> SUFFICES ASSUME Sqlite, TypeOK, Single, [Next]_vars PROVE Single'
    OBVIOUS
  <1>1. CASE UNCHANGED syn
    BY <1>1 DEF Single
  <1>2. ASSUME NEW e \in Ends, PutSynapse(e), ~Conflict(e) PROVE Single'
    <2>1. syn[Owner(e)][Peer(e)] = {}
      BY <1>2 DEF Conflict
    <2>2. syn' = [syn EXCEPT ![Owner(e)][Peer(e)] = syn[Owner(e)][Peer(e)] \cup {e}]
      BY <1>2 DEF PutSynapse
    <2>3. syn' = [syn EXCEPT ![Owner(e)][Peer(e)] = {e}]
      BY <2>1, <2>2
    <2>4. {e} \in SUBSET Ends
      OBVIOUS
    <2>5. /\ syn'[Owner(e)][Peer(e)] = {e}
          /\ \A m, q \in Nodes : m # Owner(e) \/ q # Peer(e) => syn'[m][q] = syn[m][q]
      BY <2>3, <2>4, SynFacts
    <2> QED BY <2>5 DEF Single
  <1>3. \A e \in Ends : Work(e) \/ FailRead(e) \/ PumpBreaks(e)
                           => UNCHANGED syn \/ (PutSynapse(e) /\ ~Conflict(e))
    BY DEF Work, ReadHello, ReadProof, Abandon, FindSynapse, PutSynapse, Admit, EndRead,
           Unlist, FailRead, PumpBreaks
  <1>4. \A c \in Conns : Dial(c) \/ Accept(c) \/ Cut(c) => UNCHANGED syn
    BY DEF Dial, Accept, Begin, Cut
  <1>5. \A n \in Nodes : Crash(n) => UNCHANGED syn
    BY DEF Crash
  <1>6. Tick \/ UNCHANGED vars => UNCHANGED syn
    BY DEF Tick, vars
  <1> QED BY <1>1, <1>2, <1>3, <1>4, <1>5, <1>6 DEF Next

(* Single rows are at most one for each pair. *)
LEMMA SingleOne == Single => OneSynapse
  <1> SUFFICES ASSUME Single, NEW n \in Nodes, NEW p \in Nodes
               PROVE  Cardinality(syn[n][p]) <= 1
    BY DEF OneSynapse
  <1>1. CASE syn[n][p] = {}
    BY <1>1, FS_EmptySet
  <1>2. ASSUME NEW e \in Ends, syn[n][p] = {e} PROVE Cardinality(syn[n][p]) <= 1
    <2>1. Cardinality({e}) = 1
      BY FS_Singleton
    <2> QED BY <1>2, <2>1
  <1> QED BY <1>1, <1>2 DEF Single

(* One synapse per peer on SQLite (upsert_synapse), also when the tasks of  *)
(* several connections of one peer look it up before any of them creates    *)
(* it, and across crashes, which the rows survive.                          *)
THEOREM OneSynapsePerPeer == Sqlite => (Spec => []OneSynapse)
  <1> SUFFICES ASSUME Sqlite PROVE Spec => []OneSynapse
    OBVIOUS
  <1>1. Init => TypeOK /\ Single
    BY TypeInit DEF Init, Single
  <1>2. (TypeOK /\ Single) /\ [Next]_vars => (TypeOK /\ Single)'
    BY TypeNext, SingleNext
  <1> QED BY <1>1, <1>2, SingleOne, PTL DEF Spec

-----------------------------------------------------------------------------
(* A dial that nothing disturbs *)

(* An end that leads nowhere: it has not begun, is over, or waits for the   *)
(* proof of an end that is over and never gave one.                         *)
Stale(e) ==
    \/ phase[e] \in {"none", "done"}
    \/ phase[e] \in Shaking /\ phase[Other(e)] = "done" /\ Other(e) \notin proved

(* A dialed connection that met no failure is not cut, neither of its ends  *)
(* ends, an open one has the table entry, one about to create the synapse   *)
(* finds no other, and the other connections of the two nodes lead nowhere. *)
Undisturbed(c) ==
    /\ c \notin cut
    /\ \A e \in Ends : Conn(e) = c =>
          /\ phase[e] \notin {"closing", "done"}
          /\ phase[e] = "open" => Entry(e) = e
          /\ phase[e] = "put" => syn[Owner(e)][Peer(e)] = {}
    /\ \A e \in Ends : Conn(e) # c /\ SamePair(c, Conn(e)) => Stale(e)

Live(c) == c \notin upset /\ phase[<<c, "dialer">>] # "none" /\ Dialer[c] # Listener[c]

Clean == \A c \in Conns : Live(c) => Undisturbed(c)

DInv == HInv /\ NoGhost /\ Clean

(* The two ends of a connection and the nodes they join. *)
LEMMA PairFacts ==
    ASSUME NEW e \in Ends, NEW f \in Ends
    PROVE  /\ Conn(e) = Conn(f) => f = e \/ f = Other(e)
           /\ Owner(e) = Owner(f) /\ Peer(e) = Peer(f) => SamePair(Conn(e), Conn(f))
           /\ SamePair(Conn(e), Conn(e))
           /\ Dialer[Conn(e)] # Listener[Conn(e)] <=> Owner(e) # Peer(e)
  <1>1. PICK c \in Conns, s \in {"dialer", "listener"} : e = <<c, s>>
    BY DEF Ends
  <1>2. PICK d \in Conns, t \in {"dialer", "listener"} : f = <<d, t>>
    BY DEF Ends
  <1>3. Conn(e) = Conn(f) => f = e \/ f = Other(e)
    BY <1>1, <1>2 DEF Conn, Other
  <1>4. \/ Owner(e) = Dialer[Conn(e)] /\ Peer(e) = Listener[Conn(e)]
        \/ Owner(e) = Listener[Conn(e)] /\ Peer(e) = Dialer[Conn(e)]
    BY <1>1 DEF Owner, Peer, Conn, Other
  <1>5. \/ Owner(f) = Dialer[Conn(f)] /\ Peer(f) = Listener[Conn(f)]
        \/ Owner(f) = Listener[Conn(f)] /\ Peer(f) = Dialer[Conn(f)]
    BY <1>2 DEF Owner, Peer, Conn, Other
  <1>6. Owner(e) = Owner(f) /\ Peer(e) = Peer(f) => SamePair(Conn(e), Conn(f))
    BY <1>4, <1>5 DEF SamePair
  <1> QED BY <1>3, <1>4, <1>6 DEF SamePair

(* The ends of a connection are its dialing and its listening one. *)
LEMMA SideConn ==
    ASSUME NEW c \in Conns
    PROVE  /\ Conn(<<c, "dialer">>) = c /\ Conn(<<c, "listener">>) = c
           /\ Other(<<c, "dialer">>) = <<c, "listener">>
           /\ Other(<<c, "listener">>) = <<c, "dialer">>
           /\ \A e \in Ends : Conn(e) = c => e = <<c, "dialer">> \/ e = <<c, "listener">>
  <1>1. \A e \in Ends : Conn(e) = c => e = <<c, "dialer">> \/ e = <<c, "listener">>
    BY DEF Ends, Conn
  <1> QED BY <1>1 DEF Conn, Other

(* The only end of the two nodes that has come through the handshake is one *)
(* of the undisturbed connection, so its entry is its own or empty.         *)
LEMMA AloneFacts ==
    ASSUME DInv, NEW c \in Conns, Live(c), NEW e \in Ends, Conn(e) = c
    PROVE  /\ Undisturbed(c) /\ Owner(e) # Peer(e)
           /\ phase[e] \notin {"closing", "done"} /\ phase[Other(e)] \notin {"closing", "done"}
           /\ \A f \in Ends : Owner(f) = Owner(e) /\ Peer(f) = Peer(e)
                                 /\ phase[f] \in Authenticated => f = e
           /\ Entry(e) = NoEnd \/ (Entry(e) = e /\ phase[e] = "open")
  <1>1. Undisturbed(c) /\ Owner(e) # Peer(e)
    BY PairFacts DEF DInv, Clean, Live
  <1>2. Other(e) \in Ends /\ Conn(Other(e)) = c /\ Owner(e) \in Nodes /\ Peer(e) \in Nodes
        /\ Owner(Other(e)) = Peer(e)
    BY EndFacts
  <1>3. phase[e] \notin {"closing", "done"} /\ phase[Other(e)] \notin {"closing", "done"}
    BY <1>1, <1>2 DEF Undisturbed
  <1>4. ASSUME NEW f \in Ends, Owner(f) = Owner(e), Peer(f) = Peer(e),
               phase[f] \in Authenticated
        PROVE  f = e
    <2>1. ~Stale(f)
      BY <1>4 DEF Stale, Authenticated, Shaking
    <2>2. SamePair(c, Conn(f))
      BY <1>4, PairFacts
    <2>3. Conn(f) = c
      BY <1>1, <2>1, <2>2 DEF Undisturbed
    <2> QED BY <2>3, <1>1, <1>2, <1>4, PairFacts
  <1>5. Entry(e) = NoEnd \/ (Entry(e) = e /\ phase[e] = "open")
    <2> SUFFICES ASSUME Entry(e) # NoEnd PROVE Entry(e) = e /\ phase[e] = "open"
      OBVIOUS
    <2>1. Entry(e) \in Ends
      BY <1>2 DEF Entry, DInv, HInv, TypeOK
    <2>2. Owner(Entry(e)) = Owner(e) /\ Peer(Entry(e)) = Peer(e)
          /\ phase[Entry(e)] \in {"open", "closing"}
      BY <1>2 DEF Entry, DInv, NoGhost
    <2>3. Entry(e) = e
      BY <1>4, <2>1, <2>2 DEF Authenticated
    <2> QED BY <2>2, <2>3, <1>3
  <1> QED BY <1>1, <1>3, <1>4, <1>5

(* An end keeps leading nowhere, and a connection undisturbed, as long as   *)
(* what they depend on is left alone.                                       *)
LEMMA StaleKept ==
    ASSUME NEW e \in Ends, Stale(e), phase'[e] = phase[e],
           phase'[Other(e)] = phase[Other(e)], Other(e) \in proved' => Other(e) \in proved
    PROVE  Stale(e)'
  BY DEF Stale

(* A step elsewhere does not disturb a connection. *)
LEMMA CleanKept ==
    ASSUME DInv, NEW c \in Conns, Live(c), c \notin cut',
           \A e \in Ends : Conn(e) = c =>
              /\ phase'[e] = phase[e]
              /\ phase[e] = "open" => table'[Owner(e)][Peer(e)] = table[Owner(e)][Peer(e)]
              /\ syn'[Owner(e)][Peer(e)] \in {syn[Owner(e)][Peer(e)], {}},
           \A e \in Ends : Conn(e) # c /\ SamePair(c, Conn(e)) => Stale(e)'
    PROVE  Undisturbed(c)'
  <1>1. Undisturbed(c)
    BY DEF DInv, Clean
  <1> QED BY <1>1 DEF Undisturbed, Entry

(* A dial keeps DInv, ... *)
LEMMA CleanDial ==
    ASSUME DInv, NEW b \in Conns, Dial(b), NEW c \in Conns, Live(c)'
    PROVE  Undisturbed(c)'
  <1> DEFINE d == <<b, "dialer">>
  <1>0. TypeOK /\ d \in Ends /\ Conn(d) = b
    BY SideFacts, SideConn DEF DInv, HInv
  <1>1. phase'[d] = "hello" /\ phase[d] = "none" /\ \A y \in Ends : y # d => phase'[y] = phase[y]
    BY <1>0, BeginGoes, GoesFacts DEF Dial, Begin
  <1>2. UNCHANGED <<table, syn, cut, proved>>
    BY DEF Dial, Begin
  <1>3. upset \subseteq upset' /\ c \notin upset
    BY DEF Dial, Live
  <1>4. CASE b = c
    <2>1. \A x \in Conns \ {c} : SamePair(c, x) => Idle(x)
      BY <1>4 DEF Dial, Live
    <2>2. \A e \in Ends : Conn(e) = c => e = d \/ phase[e] = "none"
      BY <1>1, <1>4, SideConn, SideFacts DEF DInv, HInv, Begun
    <2>3. c \notin cut
      BY <1>4 DEF Dial
    <2>4. ASSUME NEW e \in Ends, Conn(e) # c, SamePair(c, Conn(e)) PROVE Stale(e)'
      <3>1. Conn(e) \in Conns /\ e \in {<<Conn(e), "dialer">>, <<Conn(e), "listener">>}
        BY EndFacts, SideConn
      <3>2. Idle(Conn(e))
        BY <2>1, <2>4, <3>1
      <3>3. phase[e] \in {"none", "done"}
        BY <3>1, <3>2 DEF Idle
      <3>4. e # d
        BY <1>0, <1>4, <2>4
      <3> QED BY <3>3, <3>4, <1>1 DEF Stale
    <2>5. \A e \in Ends : Conn(e) = c => phase'[e] \in {"none", "hello"}
      BY <1>1, <2>2
    <2> QED BY <1>2, <2>3, <2>4, <2>5 DEF Undisturbed
  <1>5. CASE b # c
    <2>0. <<c, "dialer">> \in Ends /\ <<c, "dialer">> # d /\ Conn(<<c, "dialer">>) = c
      BY <1>5, SideFacts, SideConn
    <2>1. Live(c)
      BY <1>1, <1>3, <2>0 DEF Live
    <2>2. phase[<<c, "dialer">>] \notin {"none", "done"}
      BY <2>0, <2>1, AloneFacts DEF Live
    <2>3. ~SamePair(b, c)
      BY <1>5, <2>2 DEF Dial, Idle, Live
    <2>4. ~SamePair(c, b)
      BY <2>3 DEF SamePair
    <2>5. \A e \in Ends : Conn(e) = c => phase'[e] = phase[e]
      BY <1>0, <1>1, <1>5
    <2>6. ASSUME NEW e \in Ends, Conn(e) # c, SamePair(c, Conn(e)) PROVE Stale(e)'
      <3>1. e # d /\ Other(e) # d /\ Other(e) \in Ends
        BY <1>0, <2>4, <2>6, EndFacts
      <3>2. Stale(e)
        BY <2>1, <2>6 DEF DInv, Clean, Undisturbed
      <3> QED BY <3>1, <3>2, <1>1, <1>2, StaleKept
    <2>7. c \notin cut'
      BY <1>2, <2>1 DEF DInv, Clean, Undisturbed
    <2> QED BY <1>2, <2>1, <2>5, <2>6, <2>7, CleanKept
  <1> QED BY <1>4, <1>5

(* ... an accept does, ... *)
LEMMA CleanAccept ==
    ASSUME DInv, NEW b \in Conns, Accept(b), NEW c \in Conns, Live(c)'
    PROVE  Undisturbed(c)'
  <1> DEFINE l == <<b, "listener">>
  <1>0. TypeOK /\ l \in Ends /\ Conn(l) = b /\ Other(l) = <<b, "dialer">>
    BY SideFacts, SideConn DEF DInv, HInv
  <1>1. phase'[l] = "hello" /\ phase[l] = "none" /\ \A y \in Ends : y # l => phase'[y] = phase[y]
    BY <1>0, BeginGoes, GoesFacts DEF Accept, Begin
  <1>2. UNCHANGED <<table, syn, cut, proved, upset>>
    BY DEF Accept, Begin
  <1>3. Live(c)
    BY <1>1, <1>2, SideFacts DEF Live
  <1>4. Undisturbed(c)
    BY <1>3 DEF DInv, Clean
  <1>5. ASSUME NEW e \in Ends, Conn(e) # c, SamePair(c, Conn(e)) PROVE Stale(e)'
    <2>1. Stale(e) /\ Stale(Other(e)) /\ Other(e) \in Ends /\ Other(Other(e)) = e
      BY <1>4, <1>5, EndFacts DEF Undisturbed
    <2>2. CASE e = l
      <3>1. phase[Other(e)] # "none"
        BY <1>0, <2>2 DEF Accept
      <3>2. phase[Other(e)] = "done"
        BY <1>1, <2>1, <2>2, <3>1 DEF Stale
      <3>3. Other(e) \notin proved
        BY <1>1, <2>1, <2>2 DEF DInv, HInv, Begun
      <3>4. phase'[Other(e)] = phase[Other(e)]
        BY <1>1, <2>1, <2>2, EndFacts
      <3> QED BY <1>1, <1>2, <2>2, <3>2, <3>3, <3>4 DEF Stale, Shaking
    <2>3. CASE Other(e) = l
      <3>1. phase[e] \in {"none", "done"}
        BY <1>1, <2>1, <2>3 DEF Stale
      <3>2. phase'[e] = phase[e]
        BY <1>1, <2>3, EndFacts
      <3> QED BY <3>1, <3>2 DEF Stale
    <2>4. CASE e # l /\ Other(e) # l
      BY <1>1, <1>2, <2>1, <2>4, StaleKept
    <2> QED BY <2>2, <2>3, <2>4
  <1>6. \A e \in Ends : Conn(e) = c => phase'[e] = phase[e] \/ phase'[e] = "hello"
    BY <1>1
  <1> QED BY <1>2, <1>4, <1>5, <1>6 DEF Undisturbed, Entry

(* A step of one of the connection's own ends. *)
LEMMA CleanOwn ==
    ASSUME DInv, NEW e \in Ends, Work(e) \/ FailRead(e), Live(Conn(e)), Live(Conn(e))'
    PROVE  Undisturbed(Conn(e))'
  <1> DEFINE c == Conn(e)
             o == Other(e)
  <1>0. TypeOK /\ c \in Conns /\ o \in Ends /\ o # e /\ Conn(o) = c
        /\ Owner(e) \in Nodes /\ Peer(e) \in Nodes /\ Owner(o) = Peer(e) /\ Peer(o) = Owner(e)
    BY EndFacts DEF DInv, HInv
  <1>1. /\ Undisturbed(c) /\ Owner(e) # Peer(e)
        /\ phase[e] \notin {"closing", "done"} /\ phase[o] \notin {"closing", "done"}
        /\ Entry(e) = NoEnd \/ (Entry(e) = e /\ phase[e] = "open")
    BY <1>0, AloneFacts
  <1>2. \A y \in Ends : y # e => phase'[y] = phase[y]
    BY <1>0, WorkGoes, GoesFacts
  <1>3. c \in Upset(c) /\ c \notin upset'
    BY <1>0, PairFacts DEF Upset, Live
  <1>4. ~Gone(e)
    BY <1>1 DEF Gone, Undisturbed
  <1>5. ~(Abandon(e) \/ EndRead(e) \/ Unlist(e) \/ FailRead(e))
    BY <1>1, <1>3, <1>4 DEF Abandon, EndRead, LoopEnds, Unlist, FailRead
  <1>6. \A x \in Ends : Conn(x) # c => x # e /\ Other(x) # e /\ Other(x) \in Ends
    BY EndFacts
  <1>7. \A x \in Ends : Conn(x) # c /\ SamePair(c, Conn(x)) => Stale(x)'
    <2>1. \A x \in Ends : x # e => (x \in proved' => x \in proved)
      BY DEF Work, FailRead, ReadHello, ReadProof, Abandon, FindSynapse, PutSynapse, Admit,
             EndRead, Unlist
    <2>2. \A x \in Ends : Conn(x) # c /\ SamePair(c, Conn(x)) => Stale(x)
      BY <1>1 DEF Undisturbed
    <2> QED BY <1>2, <1>6, <2>1, <2>2, StaleKept
  <1>8. \A x \in Ends : Conn(x) = c => x = e \/ x = o
    BY PairFacts
  <1>9. c \notin cut'
    BY <1>1, <1>5 DEF Work, ReadHello, ReadProof, FindSynapse, PutSynapse, Admit, Undisturbed
  <1>10. /\ phase[o] = "open" => Entry(o) = o
         /\ phase[o] = "put" => syn[Owner(o)][Peer(o)] = {}
    BY <1>0, <1>1 DEF Undisturbed
  <1> HIDE DEF c, o
  <1> DEFINE Fine(x) == /\ phase'[x] \notin {"closing", "done"}
                        /\ phase'[x] = "open" => table'[Owner(x)][Peer(x)] = x
                        /\ phase'[x] = "put" => syn'[Owner(x)][Peer(x)] = {}
  <1>11. phase \in [Ends -> Phases]
    BY <1>0 DEF TypeOK
  <1>12. ASSUME ReadHello(e) PROVE Fine(e) /\ Fine(o)
    <2>1. wire[e] # <<>>
      BY <1>12 DEF ReadHello, Reads
    <2>2. Carries(e, Head(wire[e]))
      BY <1>0, <2>1, RestFacts DEF DInv, HInv, Wired
    <2>3. phase'[e] = "proof"
      BY <1>1, <1>11, <1>12, <2>2 DEF ReadHello, Goes, OwnIdentity, Carries
    <2> QED BY <1>0, <1>1, <1>2, <1>10, <1>12, <2>3 DEF ReadHello, Entry
  <1>13. ASSUME ReadProof(e) PROVE Fine(e) /\ Fine(o)
    <2>1. wire[e] # <<>> /\ Head(wire[e]).kind = "proof"
      BY <1>13 DEF ReadProof, Reads
    <2>2. Carries(e, Head(wire[e]))
      BY <1>0, <2>1, RestFacts DEF DInv, HInv, Wired
    <2>3. phase'[e] = "form"
      BY <1>11, <1>13, <2>1, <2>2 DEF ReadProof, Goes, Carries
    <2> QED BY <1>0, <1>1, <1>2, <1>10, <1>13, <2>3 DEF ReadProof, Entry
  <1>14. ASSUME FindSynapse(e) PROVE Fine(e) /\ Fine(o)
    <2>1. phase'[e] \in {"put", "admit"} /\ (phase'[e] = "put" => syn[Owner(e)][Peer(e)] = {})
      BY <1>11, <1>14 DEF FindSynapse, Goes
    <2> QED BY <1>0, <1>1, <1>2, <1>10, <1>14, <2>1 DEF FindSynapse, Entry
  <1>15. ASSUME PutSynapse(e) PROVE Fine(e) /\ Fine(o)
    <2>1. syn[Owner(e)][Peer(e)] = {}
      BY <1>0, <1>1, <1>15 DEF PutSynapse, Undisturbed, c
    <2>2. phase'[e] = "admit" /\ table' = table
          /\ syn' = [syn EXCEPT ![Owner(e)][Peer(e)] = syn[Owner(e)][Peer(e)] \cup {e}]
      BY <1>11, <1>15, <2>1 DEF PutSynapse, Conflict, Goes
    <2>3. syn[Owner(e)][Peer(e)] \cup {e} \in SUBSET Ends
      BY <2>1
    <2>4. syn'[Owner(o)][Peer(o)] = syn[Owner(o)][Peer(o)]
      BY <1>0, <1>1, <2>2, <2>3, SynFacts
    <2> QED BY <1>0, <1>1, <1>2, <1>10, <2>2, <2>4 DEF Entry
  <1>16. ASSUME Admit(e) PROVE Fine(e) /\ Fine(o)
    <2>1. phase[e] = "admit" /\ ~Taken(e)
      BY <1>1, <1>16 DEF Admit, Taken
    <2>2. phase'[e] = "open" /\ syn' = syn /\ table' = [table EXCEPT ![Owner(e)][Peer(e)] = e]
      BY <1>11, <1>16, <2>1 DEF Admit, Goes
    <2>3. table'[Owner(e)][Peer(e)] = e /\ table'[Owner(o)][Peer(o)] = table[Owner(o)][Peer(o)]
      BY <1>0, <1>1, <2>2, TableFacts, ZenonT(40)
    <2> QED BY <1>0, <1>1, <1>2, <1>10, <2>2, <2>3 DEF Entry
  <1>17. Fine(e) /\ Fine(o)
    BY <1>5, <1>12, <1>13, <1>14, <1>15, <1>16 DEF Work
  <1> QED BY <1>7, <1>8, <1>9, <1>17 DEF Undisturbed, Entry, c

(* A step of an end of another connection. *)
LEMMA CleanOther ==
    ASSUME DInv, NEW e \in Ends, Work(e) \/ FailRead(e),
           NEW c \in Conns, c # Conn(e), Live(c), Live(c)'
    PROVE  Undisturbed(c)'
  <1>0. TypeOK /\ Other(e) \in Ends /\ Other(e) # e /\ Conn(Other(e)) = Conn(e)
        /\ Other(Other(e)) = e
    BY EndFacts DEF DInv, HInv
  <1>1. Undisturbed(c)
    BY DEF DInv, Clean
  <1>2. \A y \in Ends : y # e => phase'[y] = phase[y]
    BY <1>0, WorkGoes, GoesFacts
  <1>3. c \notin cut'
    BY <1>1 DEF Undisturbed, Work, FailRead, ReadHello, ReadProof, Abandon, FindSynapse,
                PutSynapse, Admit, EndRead, Unlist
  <1>4. \A x \in Ends : x # e => (x \in proved' => x \in proved)
    BY DEF Work, FailRead, ReadHello, ReadProof, Abandon, FindSynapse, PutSynapse, Admit,
           EndRead, Unlist
  <1>5. CASE SamePair(c, Conn(e))
    <2>1. Stale(e)
      BY <1>1, <1>5 DEF Undisturbed
    <2>2. /\ phase[e] \in Shaking /\ phase[Other(e)] = "done" /\ Other(e) \notin proved
          /\ (ReadHello(e) \/ ReadProof(e) \/ Abandon(e))
      BY <2>1 DEF Stale, Shaking, Work, FailRead, ReadHello, ReadProof, Reads, Abandon, FindSynapse,
                  PutSynapse, Admit, EndRead, Unlist
    <2>3. ~ReadProof(e)
      <3> SUFFICES ASSUME ReadProof(e) PROVE FALSE
        OBVIOUS
      <3>1. wire[e] # <<>> /\ Head(wire[e]).kind = "proof"
        BY DEF ReadProof, Reads
      <3>2. Carries(e, Head(wire[e]))
        BY <1>0, <3>1, RestFacts DEF DInv, HInv, Wired
      <3> QED BY <2>2, <3>1, <3>2 DEF Carries
    <2>4. phase'[e] \in {"proof", "done"} /\ UNCHANGED <<table, syn>>
      BY <1>0, <2>2, <2>3 DEF ReadHello, Abandon, Goes, TypeOK
    <2>5. ASSUME NEW x \in Ends, Conn(x) # c, SamePair(c, Conn(x)) PROVE Stale(x)'
      <3>1. Stale(x) /\ Other(x) \in Ends /\ Other(Other(x)) = x
        BY <1>1, <2>5, EndFacts DEF Undisturbed
      <3>2. CASE x = e
        BY <1>0, <1>2, <1>4, <2>2, <2>4, <3>2 DEF Stale, Shaking
      <3>3. CASE Other(x) = e
        BY <1>0, <1>2, <2>2, <3>1, <3>3 DEF Stale
      <3>4. CASE x # e /\ Other(x) # e
        BY <1>2, <1>4, <3>1, <3>4, StaleKept
      <3> QED BY <3>2, <3>3, <3>4
    <2> QED BY <1>2, <1>3, <2>4, <2>5, CleanKept
  <1>6. CASE ~SamePair(c, Conn(e))
    <2>1. ASSUME NEW x \in Ends, Conn(x) # c, SamePair(c, Conn(x)) PROVE Stale(x)'
      <3>1. Stale(x) /\ Other(x) \in Ends /\ x # e /\ Other(x) # e
        BY <1>1, <1>6, <2>1, EndFacts DEF Undisturbed
      <3> QED BY <1>2, <1>4, <3>1, StaleKept
    <2>2. ASSUME NEW x \in Ends, Conn(x) = c
          PROVE  /\ table'[Owner(x)][Peer(x)] = table[Owner(x)][Peer(x)]
                 /\ syn'[Owner(x)][Peer(x)] = syn[Owner(x)][Peer(x)]
      <3>1. Owner(x) \in Nodes /\ Peer(x) \in Nodes /\ (Owner(x) # Owner(e) \/ Peer(x) # Peer(e))
        BY <1>6, <2>2, EndFacts, PairFacts
      <3>2. table' \in {table, [table EXCEPT ![Owner(e)][Peer(e)] = e],
                        [table EXCEPT ![Owner(e)][Peer(e)] = NoEnd]}
        BY DEF Work, ReadHello, ReadProof, Abandon, FindSynapse, PutSynapse, Admit,
               EndRead, Unlist, FailRead
      <3>3. table'[Owner(x)][Peer(x)] = table[Owner(x)][Peer(x)]
        BY <1>0, <3>1, <3>2, TableFacts
      <3>4. \/ syn' = syn
            \/ syn' = [syn EXCEPT ![Owner(e)][Peer(e)] = syn[Owner(e)][Peer(e)] \cup {e}]
        BY DEF Work, ReadHello, ReadProof, Abandon, FindSynapse, PutSynapse, Admit,
               EndRead, Unlist, FailRead
      <3>5. syn[Owner(e)][Peer(e)] \cup {e} \in SUBSET Ends
        BY <1>0, EndFacts DEF TypeOK
      <3>6. syn'[Owner(x)][Peer(x)] = syn[Owner(x)][Peer(x)]
        <4> DEFINE v == syn[Owner(e)][Peer(e)] \cup {e}
        <4>1. v \in SUBSET Ends /\ (syn' = syn \/ syn' = [syn EXCEPT ![Owner(e)][Peer(e)] = v])
          BY <3>4, <3>5
        <4> HIDE DEF v
        <4> QED BY <1>0, <3>1, <4>1, SynFacts
      <3> QED BY <3>3, <3>6
    <2>3. \A x \in Ends : Conn(x) = c => phase'[x] = phase[x]
      BY <1>2
    <2> QED BY <1>3, <2>1, <2>2, <2>3, CleanKept
  <1> QED BY <1>5, <1>6

(* ... and a crash. *)
LEMMA CleanCrash ==
    ASSUME DInv, NEW n \in Nodes, Crash(n), NEW c \in Conns, Live(c), Live(c)'
    PROVE  Undisturbed(c)'
  <1> DEFINE mine == {e \in Ends : Owner(e) = n /\ phase[e] # "none"}
  <1>0. TypeOK
    BY DEF DInv, HInv
  <1>1. /\ phase' = [e \in Ends |-> IF e \in mine THEN "done" ELSE phase[e]]
        /\ table' = [table EXCEPT ![n] = [p \in Nodes |-> NoEnd]]
        /\ upset' = UNION {Upset(Conn(e)) : e \in mine}
        /\ UNCHANGED <<cut, proved>>
    BY DEF Crash
  <1>2. Undisturbed(c)
    BY DEF DInv, Clean
  <1>3. ASSUME NEW e \in Ends, Conn(e) = c PROVE e \notin mine
    <2>1. c \in Upset(Conn(e))
      BY <1>3, PairFacts DEF Upset, Live
    <2> QED BY <1>1, <2>1 DEF Live
  <1>4. ASSUME NEW e \in Ends, Conn(e) = c
        PROVE  /\ phase'[e] = phase[e]
               /\ phase[e] = "open" => table'[Owner(e)][Peer(e)] = table[Owner(e)][Peer(e)]
    <2>1. phase'[e] = phase[e]
      BY <1>1, <1>3, <1>4
    <2>2. ASSUME phase[e] = "open"
          PROVE  table'[Owner(e)][Peer(e)] = table[Owner(e)][Peer(e)]
      <3>1. Owner(e) # n /\ Owner(e) \in Nodes
        BY <1>3, <1>4, <2>2, EndFacts
      <3> QED BY <1>0, <1>1, <3>1 DEF TypeOK
    <2> QED BY <2>1, <2>2
  <1>5. ASSUME NEW e \in Ends, Conn(e) = c
        PROVE  syn'[Owner(e)][Peer(e)] \in {syn[Owner(e)][Peer(e)], {}}
    <2>1. syn' = syn \/ syn' = [syn EXCEPT ![n] = [p \in Nodes |-> {}]]
      BY DEF Crash
    <2>2. Owner(e) \in Nodes /\ Peer(e) \in Nodes
      BY EndFacts
    <2> QED BY <1>0, <2>1, <2>2 DEF TypeOK
  <1>6. ASSUME NEW e \in Ends, Conn(e) # c, SamePair(c, Conn(e)) PROVE Stale(e)'
    <2>1. Stale(e) /\ Other(e) \in Ends
      BY <1>2, <1>6, EndFacts DEF Undisturbed
    <2> QED BY <1>1, <2>1 DEF Stale
  <1>7. c \notin cut'
    BY <1>1, <1>2 DEF Undisturbed
  <1> QED BY <1>4, <1>5, <1>6, <1>7, CleanKept

(* DInv is inductive. *)
LEMMA CleanNext == DInv /\ [Next]_vars => DInv'
  <1> SUFFICES ASSUME DInv, [Next]_vars PROVE DInv'
    OBVIOUS
  <1>0. TypeOK /\ HInv /\ NoGhost
    BY DEF DInv, HInv
  <1>1. HInv' /\ NoGhost'
    BY <1>0, HandshakeNext, NoGhostNext
  <1>2. ASSUME NEW c \in Conns, Live(c)' PROVE Undisturbed(c)'
    <2>1. c \notin upset
      BY <1>0, <1>2, Monotone DEF Live
    <2> DEFINE d == <<c, "dialer">>
    <2>2. d \in Ends /\ Conn(d) = c
      BY SideFacts, SideConn
    <2>3. ASSUME NEW b \in Conns, Dial(b) \/ Accept(b) PROVE Undisturbed(c)'
      BY <1>2, <2>3, CleanDial, CleanAccept
    <2>4. ASSUME ~\E b \in Conns : Dial(b) PROVE Live(c)
      <3> SUFFICES ASSUME phase[d] = "none" PROVE FALSE
        BY <1>2, <2>1 DEF Live
      <3>1. phase'[d] # "none"
        BY <1>2 DEF Live
      <3>2. ASSUME NEW x \in Ends, Work(x) \/ FailRead(x) PROVE FALSE
        <4>1. x = d
          BY <1>0, <2>2, <3>1, <3>2, WorkGoes, GoesFacts
        <4> QED BY <3>2, <4>1 DEF Work, ReadHello, ReadProof, Reads, Abandon, Shaking,
                   FindSynapse, PutSynapse, Admit, EndRead, Unlist, FailRead
      <3>3. ASSUME NEW b \in Conns, Accept(b) PROVE FALSE
        <4>1. \A y \in Ends : y # <<b, "listener">> => phase'[y] = phase[y]
          BY <1>0, <3>3, SideFacts, BeginGoes, GoesFacts DEF Accept
        <4> QED BY <2>2, <3>1, <4>1
      <3>4. ASSUME NEW n \in Nodes, Crash(n) PROVE FALSE
        BY <2>2, <3>1, <3>4 DEF Crash
      <3>5. ASSUME UNCHANGED phase PROVE FALSE
        BY <3>1, <3>5
      <3>6. \A b \in Conns : Cut(b) => UNCHANGED phase
        BY DEF Cut
      <3>7. \A x \in Ends : PumpBreaks(x) => UNCHANGED phase
        BY DEF PumpBreaks
      <3>8. Tick \/ UNCHANGED vars => UNCHANGED phase
        BY DEF Tick, vars
      <3> QED BY <2>4, <3>2, <3>3, <3>4, <3>5, <3>6, <3>7, <3>8 DEF Next
    <2>5. ASSUME UNCHANGED <<phase, table, syn, proved>>, c \notin cut', Live(c)
          PROVE  Undisturbed(c)'
      <3>1. Undisturbed(c)
        BY <2>5 DEF DInv, Clean
      <3> QED BY <2>5, <3>1 DEF Undisturbed, Entry, Stale
    <2>6. Live(c) => c \notin cut
      BY DEF DInv, Clean, Undisturbed
    <2>7. ASSUME NEW b \in Conns, Cut(b), Live(c) PROVE Undisturbed(c)'
      <3>1. c # b
        <4>1. c \in Upset(c)
          BY <2>2, <2>7, PairFacts DEF Upset, Live
        <4> QED BY <1>2, <2>7, <4>1 DEF Cut, Live
      <3> QED BY <2>5, <2>6, <2>7, <3>1 DEF Cut
    <2>8. ASSUME NEW x \in Ends, PumpBreaks(x), Live(c) PROVE Undisturbed(c)'
      BY <2>5, <2>6, <2>8 DEF PumpBreaks
    <2>9. ASSUME Tick \/ UNCHANGED vars, Live(c) PROVE Undisturbed(c)'
      BY <2>5, <2>6, <2>9 DEF Tick, vars
    <2>10. ASSUME NEW x \in Ends, Work(x) \/ FailRead(x), Live(c) PROVE Undisturbed(c)'
      BY <1>2, <2>10, CleanOwn, CleanOther
    <2>11. ASSUME NEW n \in Nodes, Crash(n), Live(c) PROVE Undisturbed(c)'
      BY <1>2, <2>11, CleanCrash
    <2> QED BY <2>3, <2>4, <2>7, <2>8, <2>9, <2>10, <2>11 DEF Next
  <1> QED BY <1>1, <1>2 DEF DInv, Clean

(* It holds at the start ... *)
LEMMA CleanInit == Init => DInv
  <1> SUFFICES ASSUME Init PROVE DInv
    OBVIOUS
  <1>1. \A c \in Conns : ~Live(c)
    BY SideFacts DEF Live, Init
  <1> QED BY <1>1, HandshakeInit, NoGhostInit DEF DInv, Clean

(* ... and says that dials connect. *)
LEMMA CleanConnects == DInv => DialConnects
  <1> SUFFICES ASSUME DInv, NEW c \in Conns \ upset, AtRest(c)
               PROVE  IF Dialer[c] = Listener[c]
                      THEN Entry(<<c, "dialer">>) = NoEnd
                      ELSE /\ Entry(<<c, "dialer">>) # NoEnd
                           /\ Entry(<<c, "listener">>) = Other(Entry(<<c, "dialer">>))
    BY DEF DialConnects
  <1> DEFINE d == <<c, "dialer">>
             l == <<c, "listener">>
  <1>0. d \in Ends /\ l \in Ends /\ Conn(d) = c /\ Conn(l) = c /\ Other(d) = l /\ d # NoEnd
    BY SideFacts, SideConn, EndFacts
  <1>1. CASE Dialer[c] = Listener[c]
    <2> SUFFICES ASSUME Entry(d) # NoEnd PROVE FALSE
      BY <1>1
    <2>1. Owner(d) \in Nodes /\ Peer(d) \in Nodes /\ Owner(d) = Peer(d)
      BY <1>0, <1>1, EndFacts, PairFacts
    <2>2. Entry(d) \in Ends
      BY <2>1 DEF Entry, DInv, HInv, TypeOK
    <2>3. Owner(Entry(d)) = Peer(Entry(d)) /\ phase[Entry(d)] \in {"open", "closing"}
      BY <2>1 DEF Entry, DInv, NoGhost
    <2> QED BY <2>2, <2>3 DEF DInv, HInv, Agreement, Authenticated
  <1>2. CASE Dialer[c] # Listener[c]
    <2>1. phase[d] \in {"open", "done"} /\ phase[l] \in {"open", "done"}
      BY DEF AtRest
    <2>2. Live(c)
      BY <1>2, <2>1 DEF Live
    <2>3. Undisturbed(c)
      BY <2>2 DEF DInv, Clean
    <2>4. Entry(d) = d /\ Entry(l) = l
      BY <1>0, <2>1, <2>3 DEF Undisturbed
    <2> QED BY <1>0, <1>2, <2>4
  <1> QED BY <1>1, <1>2

(* A dial connects (Runtime::dial): unless it times out, breaks or overlaps *)
(* with another connection of the two nodes, a dialed connection comes to   *)
(* rest with each node listing the other over it, whatever came before it;  *)
(* dialing oneself leaves nothing behind.                                   *)
THEOREM DialsConnect == Spec => []DialConnects
  BY CleanInit, CleanNext, CleanConnects, PTL DEF Spec
=============================================================================
