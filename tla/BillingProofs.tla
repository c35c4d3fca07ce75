---------------------------- MODULE BillingProofs ----------------------------
(***************************************************************************)
(* Proofs about Billing, for any nodes, prices, consumers and bounds: no   *)
(* total contains a node twice, or a node without a bill, whatever         *)
(* consumers overlap, leave, or are told again.                            *)
(***************************************************************************)
EXTENDS Billing, FoldLemmas

\* Bills are only added, so what was sound stays sound.
LEMMA SoundMonotonic ==
  ASSUME NEW bill, NEW bills, NEW more, bills \subseteq more, Sound(bill, bills)
  PROVE  Sound(bill, more)
BY DEF Sound

\* Rounding a price to the unit of a total gives a total.
LEMMA RoundedNat ==
  ASSUME NEW x \in Nat
  PROVE  Rounded(x) \in Nat
<1>1. 2 * x + Unit \in Nat /\ 2 * Unit \in Nat \ {0}
  BY PriceAssumption
<1> QED
  BY <1>1 DEF Rounded

\* Charging a node gives a total again.
LEMMA ChargeType ==
  ASSUME NEW bill \in FlowBill, NEW n \in Nodes
  PROVE  Charge(bill, n) \in FlowBill
<1>1. bill.total * Unit + Price[n] \in Nat
  <2>1. bill.total \in Nat /\ Unit \in Nat /\ Price[n] \in Nat
    BY PriceAssumption DEF FlowBill
  <2> QED
    BY <2>1
<1>2. Rounded(bill.total * Unit + Price[n]) \in Nat
  BY <1>1, RoundedNat
<1>3. [bill.charged EXCEPT ![n] = @ + 1] \in Charges
  BY DEF FlowBill, Charges
<1> QED
  BY <1>2, <1>3 DEF Charge, FlowBill

\* Charging a billed node that a sound total does not contain keeps it sound.
LEMMA ChargeSound ==
  ASSUME NEW bill \in FlowBill, NEW n \in Nodes, NEW bills,
         Sound(bill, bills), n \in bills, bill.charged[n] = 0
  PROVE  Sound(Charge(bill, n), bills)
BY DEF Charge, Sound, FlowBill, Charges

\* An empty total is sound.
LEMMA NothingSound ==
  ASSUME NEW bills
  PROVE  NothingCharged \in FlowBill /\ Sound(NothingCharged, bills)
BY DEF NothingCharged, FlowBill, Charges, Sound

\* A step that gives one consumer a sound record, deletes no bill and keeps the
\* row of the total, leaves all consumers sound.
LEMMA BecomeSound ==
  ASSUME handler \in [Consumers -> Handler \cup {Idle}], HandlersSound,
         NEW c \in Consumers, NEW r \in Handler \cup {Idle},
         handler' = [handler EXCEPT ![c] = r],
         billed \subseteq billed', flow # NoBill => flow' # NoBill,
         CopySound(r, billed'), TotalKept(r, flow')
  PROVE  handler' \in [Consumers -> Handler \cup {Idle}] /\ HandlersSound'
<1>1. ASSUME NEW d \in Consumers
      PROVE  CopySound(handler'[d], billed') /\ TotalKept(handler'[d], flow')
  <2>1. CASE d = c
    BY <2>1
  <2>2. CASE d # c
    <3>1. handler'[d] = handler[d] /\ CopySound(handler[d], billed) /\ TotalKept(handler[d], flow)
      BY <2>2 DEF HandlersSound
    <3>2. CopySound(handler[d], billed')
      BY <3>1, SoundMonotonic DEF CopySound
    <3>3. TotalKept(handler[d], flow')
      BY <3>1 DEF TotalKept
    <3> QED
      BY <3>1, <3>2, <3>3
  <2> QED
    BY <2>1, <2>2
<1> QED
  BY <1>1 DEF HandlersSound

\* An idle consumer relies on nothing.
LEMMA IdleSound ==
  ASSUME NEW bills, NEW row
  PROVE  CopySound(Idle, bills) /\ TotalKept(Idle, row)
BY DEF CopySound, TotalKept, Idle

\* A consumer that is at a step serves a node.
LEMMA Serving ==
  ASSUME TypeOK, NEW c \in Consumers, handler[c].pc \in Steps
  PROVE  handler[c] \in Handler
BY DEF TypeOK, Idle, Steps

(***************************************************************************)
(* Every action keeps BillingInv.                                                *)
(***************************************************************************)
LEMMA InitIInv == Init => BillingInv
<1> SUFFICES ASSUME Init PROVE BillingInv
  OBVIOUS
<1>1. TypeOK
  BY DEF Init, TypeOK
<1>2. ChargedOnce
  BY DEF Init, ChargedOnce
<1>3. HandlersSound
  BY IdleSound DEF Init, HandlersSound
<1> QED
  BY <1>1, <1>2, <1>3 DEF BillingInv

LEMMA PublishIInv ==
  ASSUME BillingInv, NEW n \in Nodes, Publish(n)
  PROVE  BillingInv'
<1>1. TypeOK'
  BY DEF BillingInv, TypeOK, Publish
<1>2. ChargedOnce' /\ HandlersSound'
  BY DEF BillingInv, Publish, ChargedOnce, HandlersSound
<1> QED
  BY <1>1, <1>2 DEF BillingInv

\* A step that changes one consumer only, besides messages and counters.
LEMMA LocalStep ==
  ASSUME BillingInv, NEW c \in Consumers, NEW r \in Handler \cup {Idle},
         handler' = [handler EXCEPT ![c] = r], UNCHANGED <<flow, billed>>,
         CopySound(r, billed), TotalKept(r, flow),
         published' \in [Nodes -> Nat], topic' \in [Nodes -> Nat],
         notice' \in Notice \cup {NoNotice}, used' \in [fail : Nat, leave : Nat]
  PROVE  BillingInv'
<1>1. handler' \in [Consumers -> Handler \cup {Idle}] /\ HandlersSound'
  BY BecomeSound DEF BillingInv, TypeOK
<1>2. TypeOK'
  BY <1>1 DEF BillingInv, TypeOK
<1>3. ChargedOnce'
  BY DEF BillingInv, ChargedOnce
<1> QED
  BY <1>1, <1>2, <1>3 DEF BillingInv

LEMMA ReceiveIInv ==
  ASSUME BillingInv, NEW c \in Consumers, NEW n \in Nodes, Receive(c, n)
  PROVE  BillingInv'
<1> DEFINE r == IF n \in Unbillable THEN Idle
                ELSE [pc |-> "flow", node |-> n, copy |-> NothingCharged]
<1>1. r \in Handler \cup {Idle}
  BY NothingSound DEF Handler, Steps
<1>2. CopySound(r, billed) /\ TotalKept(r, flow)
  BY DEF CopySound, TotalKept, Idle
<1>3. topic' \in [Nodes -> Nat]
  BY DEF Receive, BillingInv, TypeOK
<1>4. handler' = [handler EXCEPT ![c] = r]
  BY DEF Receive
<1> HIDE DEF r
<1> QED
  BY <1>1, <1>2, <1>3, <1>4, LocalStep DEF Receive, BillingInv, TypeOK

\* Going to a step, with or without a copy of the total, gives a consumer a
\* record of its type.
LEMMA GotoType ==
  ASSUME TypeOK, NEW c \in Consumers, handler[c].pc \in Steps, NEW pc \in Steps,
         NEW copy \in FlowBill
  PROVE  /\ [handler[c] EXCEPT !.pc = pc] \in Handler
         /\ [handler[c] EXCEPT !.pc = pc, !.copy = copy] \in Handler
<1>1. handler[c] \in Handler
  BY Serving
<1> QED
  BY <1>1 DEF Handler

\* Holding a copy of the row that exists.
LEMMA HoldIInv ==
  ASSUME BillingInv, NEW c \in Consumers, handler[c].pc \in Steps,
         NEW pc \in {"node", "notify"}, flow # NoBill, Hold(c, pc, flow),
         UNCHANGED <<published, topic, flow, billed, notice, used>>
  PROVE  BillingInv'
<1> DEFINE r == [handler[c] EXCEPT !.pc = pc, !.copy = flow]
<1>1. flow \in FlowBill
  BY DEF BillingInv, TypeOK
<1>2. r \in Handler
  BY <1>1, GotoType DEF BillingInv, Steps
<1>3. r.pc = pc /\ r.copy = flow
  BY Serving DEF BillingInv, Handler
<1>4. CopySound(r, billed) /\ TotalKept(r, flow)
  BY <1>3 DEF CopySound, TotalKept, BillingInv, ChargedOnce
<1>5. handler' = [handler EXCEPT ![c] = r]
  BY DEF Hold
<1> HIDE DEF r
<1> QED
  BY <1>2, <1>4, <1>5, LocalStep DEF BillingInv, TypeOK

LEMMA GetFlowBillIInv ==
  ASSUME BillingInv, NEW c \in Consumers, GetFlowBill(c)
  PROVE  BillingInv'
<1>1. handler[c].pc = "flow" /\ "flow" \in Steps
  BY DEF GetFlowBill, At, Steps
<1>2. CASE flow # NoBill
  BY <1>1, <1>2, HoldIInv DEF GetFlowBill
<1>3. CASE flow = NoBill
  <2> DEFINE r == [handler[c] EXCEPT !.pc = "open"]
  <2>1. r \in Handler
    BY <1>1, GotoType, NothingSound DEF BillingInv, Steps
  <2>2. r.pc = "open"
    BY <1>1, Serving DEF BillingInv, Handler
  <2>3. CopySound(r, billed) /\ TotalKept(r, flow)
    BY <2>2 DEF CopySound, TotalKept
  <2>4. handler' = [handler EXCEPT ![c] = r]
    BY <1>3 DEF GetFlowBill, Goto
  <2> HIDE DEF r
  <2> QED
    BY <2>1, <2>3, <2>4, LocalStep DEF GetFlowBill, BillingInv, TypeOK
<1> QED
  BY <1>2, <1>3

\* A consumer that returns, as every error makes it do.
LEMMA ReturnIInv ==
  ASSUME BillingInv, NEW c \in Consumers, Return(c), UNCHANGED <<published, flow, billed>>,
         topic' \in [Nodes -> Nat], notice' \in Notice \cup {NoNotice},
         used' \in [fail : Nat, leave : Nat]
  PROVE  BillingInv'
BY IdleSound, LocalStep DEF Return, BillingInv, TypeOK

\* The first consumer to charge inserts an empty total, which is sound.
LEMMA OpenFlowBillIInv ==
  ASSUME BillingInv, NEW c \in Consumers, OpenFlowBill(c)
  PROVE  BillingInv'
<1>1. handler[c].pc = "open" /\ handler[c].pc \in Steps
  BY DEF OpenFlowBill, At, Steps
<1>2. CASE flow # NoBill
  BY <1>2, ReturnIInv DEF OpenFlowBill, BillingInv, TypeOK
<1>3. CASE flow = NoBill
  <2> DEFINE r == [handler[c] EXCEPT !.pc = "node", !.copy = NothingCharged]
  <2>1. r \in Handler
    BY <1>1, GotoType, NothingSound DEF BillingInv, Steps
  <2>2. r.pc = "node" /\ r.copy = NothingCharged
    BY <1>1, Serving DEF BillingInv, Handler
  <2>3. flow' = NothingCharged /\ handler' = [handler EXCEPT ![c] = r] /\ billed' = billed
    BY <1>3 DEF OpenFlowBill, Hold
  <2>4. flow' # NoBill
    BY <2>3, NothingSound, BillingAssumption
  <2>5. CopySound(r, billed') /\ TotalKept(r, flow')
    BY <2>2, <2>4, NothingSound DEF CopySound, TotalKept
  <2> HIDE DEF r
  <2>6. handler' \in [Consumers -> Handler \cup {Idle}] /\ HandlersSound'
    BY <2>1, <2>3, <2>4, <2>5, BecomeSound DEF BillingInv, TypeOK
  <2>7. TypeOK'
    BY <2>3, <2>6, NothingSound DEF OpenFlowBill, BillingInv, TypeOK
  <2>8. ChargedOnce'
    BY <2>3, NothingSound DEF ChargedOnce
  <2> QED
    BY <2>6, <2>7, <2>8 DEF BillingInv
<1> QED
  BY <1>2, <1>3

\* The node had no bill until now, so no sound copy of the total contains it:
\* from here on it is charged exactly once.
LEMMA InsertNodeBillIInv ==
  ASSUME BillingInv, NEW c \in Consumers, InsertNodeBill(c)
  PROVE  BillingInv'
<1>1. handler[c].pc = "node" /\ handler[c].pc \in Steps /\ "save" \in Steps
  BY DEF InsertNodeBill, At, Steps
<1>2. handler[c] \in Handler
  BY <1>1, Serving DEF BillingInv
<1>3. CASE handler[c].node \in billed
  BY <1>3, ReturnIInv DEF InsertNodeBill, BillingInv, TypeOK
<1>4. CASE handler[c].node \notin billed
  <2> DEFINE r == [handler[c] EXCEPT !.pc = "save"]
  <2>1. r \in Handler
    BY <1>1, GotoType, NothingSound DEF BillingInv
  <2>2. r.pc = "save" /\ r.copy = handler[c].copy /\ r.node = handler[c].node
    BY <1>2 DEF Handler
  <2>3. /\ handler' = [handler EXCEPT ![c] = r]
        /\ billed' = billed \cup {handler[c].node}
        /\ UNCHANGED <<published, topic, flow, notice, used>>
    BY <1>4 DEF InsertNodeBill, Goto
  <2>4. Sound(handler[c].copy, billed) /\ flow # NoBill
    BY <1>1 DEF BillingInv, HandlersSound, CopySound, TotalKept
  <2>5. handler[c].copy.charged[handler[c].node] = 0
    BY <1>2, <1>4, <2>4 DEF Sound, Handler, FlowBill, Charges
  <2>6. Sound(handler[c].copy, billed')
    BY <2>3, <2>4, SoundMonotonic
  <2>7. CopySound(r, billed') /\ TotalKept(r, flow')
    BY <2>2, <2>3, <2>4, <2>5, <2>6 DEF CopySound, TotalKept
  <2> HIDE DEF r
  <2>8. handler' \in [Consumers -> Handler \cup {Idle}] /\ HandlersSound'
    BY <2>1, <2>3, <2>7, BecomeSound DEF BillingInv, TypeOK
  <2>9. TypeOK'
    BY <1>2, <2>3, <2>8 DEF BillingInv, TypeOK, Handler
  <2>10. ChargedOnce'
    BY <2>3, SoundMonotonic DEF BillingInv, ChargedOnce
  <2> QED
    BY <2>8, <2>9, <2>10 DEF BillingInv
<1> QED
  BY <1>3, <1>4

\* The new total is a sound copy and a node that it does not contain; totals
\* that other consumers wrote since are lost, which charges nothing twice.
LEMMA SaveFlowBillIInv ==
  ASSUME BillingInv, NEW c \in Consumers, SaveFlowBill(c)
  PROVE  BillingInv'
<1> DEFINE r == [handler[c] EXCEPT !.pc = "total"]
           bill == Charge(handler[c].copy, handler[c].node)
<1>1. handler[c].pc = "save" /\ handler[c].pc \in Steps /\ "total" \in Steps
  BY DEF SaveFlowBill, At, Steps
<1>2. handler[c] \in Handler
  BY <1>1, Serving DEF BillingInv
<1>3. r \in Handler /\ r.pc = "total"
  BY <1>1, <1>2, GotoType, NothingSound DEF BillingInv, Handler
<1>4. bill \in FlowBill
  BY <1>2, ChargeType DEF Handler
<1>5. Sound(bill, billed)
  <2>1. /\ Sound(handler[c].copy, billed)
        /\ handler[c].node \in billed
        /\ handler[c].copy.charged[handler[c].node] = 0
    BY <1>1 DEF BillingInv, HandlersSound, CopySound
  <2>2. handler[c].copy \in FlowBill /\ handler[c].node \in Nodes
    BY <1>2 DEF Handler
  <2> QED
    BY <2>1, <2>2, ChargeSound
<1>6. /\ handler' = [handler EXCEPT ![c] = r]
      /\ flow' = bill
      /\ UNCHANGED <<published, topic, billed, notice, used>>
  BY DEF SaveFlowBill, Goto
<1> HIDE DEF r, bill
<1>7. flow' # NoBill
  BY <1>4, <1>6, BillingAssumption
<1>8. CopySound(r, billed') /\ TotalKept(r, flow')
  BY <1>3, <1>7 DEF CopySound, TotalKept
<1>9. handler' \in [Consumers -> Handler \cup {Idle}] /\ HandlersSound'
  BY <1>3, <1>6, <1>7, <1>8, BecomeSound DEF BillingInv, TypeOK
<1>10. TypeOK'
  BY <1>4, <1>6, <1>9 DEF BillingInv, TypeOK
<1>11. ChargedOnce'
  BY <1>5, <1>6 DEF ChargedOnce
<1> QED
  BY <1>9, <1>10, <1>11 DEF BillingInv

LEMMA ReadTotalIInv ==
  ASSUME BillingInv, NEW c \in Consumers, ReadTotal(c)
  PROVE  BillingInv'
<1>1. handler[c].pc = "total" /\ handler[c].pc \in Steps
  BY DEF ReadTotal, At, Steps
<1>2. flow # NoBill
  BY <1>1 DEF BillingInv, HandlersSound, TotalKept
<1> QED
  BY <1>1, <1>2, HoldIInv DEF ReadTotal

LEMMA NotifyUserIInv ==
  ASSUME BillingInv, NEW c \in Consumers, NotifyUser(c)
  PROVE  BillingInv'
<1>1. handler[c].pc \in Steps
  BY DEF NotifyUser, At, Steps
<1>2. notice' \in Notice
  BY <1>1, Serving DEF NotifyUser, Notice, BillingInv, TypeOK, Handler, FlowBill
<1> QED
  BY <1>2, ReturnIInv DEF NotifyUser, BillingInv, TypeOK

LEMMA FailIInv ==
  ASSUME BillingInv, NEW c \in Consumers, Fail(c) \/ Leave(c)
  PROVE  BillingInv'
<1>1. topic' \in [Nodes -> Nat]
  <2>1. CASE Fail(c)
    BY <2>1 DEF Fail, BillingInv, TypeOK
  <2>2. CASE Leave(c)
    BY <2>2 DEF Leave, BillingInv, TypeOK
  <2> QED
    BY <2>1, <2>2
<1>2. used' \in [fail : Nat, leave : Nat]
  BY DEF Fail, Leave, BillingInv, TypeOK
<1> QED
  BY <1>1, <1>2, ReturnIInv DEF Fail, Leave, BillingInv, TypeOK

\* Every step keeps the invariant.
LEMMA BillingStep ==
  ASSUME BillingInv, [Next]_vars
  PROVE  BillingInv'
<1>1. CASE UNCHANGED vars
  BY <1>1 DEF vars, BillingInv, TypeOK, ChargedOnce, HandlersSound
<1>2. ASSUME NEW n \in Nodes, Publish(n) PROVE BillingInv'
  BY <1>2, PublishIInv
<1>3. ASSUME NEW c \in Consumers, NEW n \in Nodes, Receive(c, n) PROVE BillingInv'
  BY <1>3, ReceiveIInv
<1>4. ASSUME NEW c \in Consumers, RecordBill(c) PROVE BillingInv'
  BY <1>4, GetFlowBillIInv, OpenFlowBillIInv, InsertNodeBillIInv, SaveFlowBillIInv,
     ReadTotalIInv, NotifyUserIInv DEF RecordBill
<1>5. ASSUME NEW c \in Consumers, Fail(c) \/ Leave(c) PROVE BillingInv'
  BY <1>5, FailIInv
<1> QED
  BY <1>1, <1>2, <1>3, <1>4, <1>5 DEF Next

\* The invariant of the billing service: the total, every copy of it, and every
\* node that is about to be charged agree with the bills that exist.
THEOREM BillingInvariant == Spec => []BillingInv
BY InitIInv, BillingStep, PTL DEF Spec

\* A total never contains a node twice, nor one without a bill, for any number
\* of consumers, messages, failures and departures.
THEOREM ChargedOnceAlways == Spec => []ChargedOnce
<1>1. BillingInv => ChargedOnce
  BY DEF BillingInv
<1> QED
  BY <1>1, BillingInvariant, PTL

-----------------------------------------------------------------------------
(***************************************************************************)
(* Sums of prices.                                                         *)
(***************************************************************************)

\* The recursion of SumOf, with the element it takes out next.
Chosen == [s \in SUBSET Nodes |-> CHOOSE x \in s : TRUE]
Adding == [n \in Nodes |-> [v \in Nat |-> Rounded(Price[n]) + v]]

\* What the fold of SumOf defines: a function on the subsets of S.
SumEquation(g, S) ==
  g = [s \in SUBSET S |-> IF s = {} THEN 0
                          ELSE LET x == CHOOSE x \in s : TRUE
                               IN  Rounded(Price[x]) + g[s \ {x}]]

\* Chosen takes an element of the set.
LEMMA ChosenPicks ==
  ASSUME NEW S \in SUBSET Nodes
  PROVE  Picks(Chosen, S)
BY DEF Picks, Chosen

\* SumOf is the value of that recursion.
LEMMA SumOfIsFold ==
  ASSUME NEW S \in SUBSET Nodes, IsFiniteSet(S)
  PROVE  \E g \in [SUBSET S -> Nat] : SumOf(S) = g[S] /\ IsFold(g, S, 0, Adding, Chosen)
<1>1. \A x \in Nodes : Rounded(Price[x]) \in Nat
  BY RoundedNat, PriceAssumption
<1>2. \A x \in S, v \in Nat : Adding[x][v] \in Nat
  BY <1>1 DEF Adding
<1>3. PICK g \in [SUBSET S -> Nat] : IsFold(g, S, 0, Adding, Chosen)
  BY <1>2, ChosenPicks, FoldExists
<1>4. \A s \in SUBSET S : s # {} => Chosen[s] = (CHOOSE x \in s : TRUE) /\ Chosen[s] \in S
  BY ChosenPicks DEF Chosen, Picks
<1>5. ASSUME NEW s \in SUBSET S, s # {}
      PROVE  g[s] = Rounded(Price[Chosen[s]]) + g[s \ {Chosen[s]}]
  <2>1. g[s \ {Chosen[s]}] \in Nat /\ Chosen[s] \in Nodes
    BY <1>4, <1>5
  <2> QED
    BY <1>3, <1>5, <2>1 DEF IsFold, Adding
<1>6. SumEquation(g, S)
  <2>1. g[{}] = 0
    BY <1>3 DEF IsFold
  <2> QED
    BY <1>4, <1>5, <2>1 DEF SumEquation
<1> DEFINE h == CHOOSE f : SumEquation(f, S)
<1>7. SumEquation(h, S)
  BY <1>6, Zenon
<1>8. SumOf(S) = h[S]
  BY Zenon DEF SumOf, MapThenSumSet, MapThenFoldSet, SumEquation
<1> HIDE DEF h
<1> DEFINE B == {s \in SUBSET S : h[s] # g[s]}
<1>9. B = {}
  <2> SUFFICES ASSUME B # {} PROVE FALSE
    OBVIOUS
  <2>1. \A s \in B : IsFiniteSet(s)
    BY FS_Subset
  <2>2. PICK s \in B : \A t \in B : ~ (t \subseteq s /\ t # s)
    <3> HIDE DEF B
    <3> QED
      BY <2>1, SmallestSet
  <2>3. s # {}
    BY <1>6, <1>7 DEF SumEquation
  <2>4. h[s] = Rounded(Price[Chosen[s]]) + h[s \ {Chosen[s]}]
    BY <1>4, <1>7, <2>3 DEF SumEquation
  <2>5. h[s \ {Chosen[s]}] = g[s \ {Chosen[s]}]
    <3>1. Chosen[s] \in s
      BY <2>3, ChosenPicks DEF Picks
    <3> QED
      BY <2>2, <3>1
  <2> QED
    BY <1>5, <2>3, <2>4, <2>5
<1> QED
  BY <1>3, <1>8, <1>9

\* The sum over a part of a set is a value of the same recursion.
LEMMA SumOfPart ==
  ASSUME NEW S \in SUBSET Nodes, IsFiniteSet(S), NEW T \in SUBSET S,
         NEW g \in [SUBSET S -> Nat], IsFold(g, S, 0, Adding, Chosen)
  PROVE  SumOf(T) = g[T]
<1>1. IsFiniteSet(T) /\ T \in SUBSET Nodes
  BY FS_Subset
<1>2. PICK h \in [SUBSET T -> Nat] : SumOf(T) = h[T] /\ IsFold(h, T, 0, Adding, Chosen)
  BY <1>1, SumOfIsFold
<1>3. IsFold(g, T, 0, Adding, Chosen)
  BY DEF IsFold
<1> QED
  BY <1>1, <1>2, <1>3, ChosenPicks, FoldUnique

\* A node more adds its price, in whatever order the sum is taken.
LEMMA SumOfAdd ==
  ASSUME NEW S \in SUBSET Nodes, IsFiniteSet(S), NEW n \in Nodes \ S
  PROVE  /\ SumOf(S) \in Nat
         /\ SumOf(S \cup {n}) = SumOf(S) + Rounded(Price[n])
<1> DEFINE U == S \cup {n}
<1>1. IsFiniteSet(U) /\ U \in SUBSET Nodes /\ S \in SUBSET U /\ U \ {n} = S
  BY FS_AddElement
<1> HIDE DEF U
<1>2. PICK w \in [U -> Nat] : \A m \in U : w[m] = Rounded(Price[m])
  <2>1. \A m \in U : Rounded(Price[m]) \in Nat
    BY <1>1, RoundedNat, PriceAssumption
  <2>2. [m \in U |-> Rounded(Price[m])] \in [U -> Nat]
    BY <2>1
  <2> QED
    BY <2>2
<1>3. PICK g \in [SUBSET U -> Nat] : IsFold(g, U, 0, Adding, Chosen)
  BY <1>1, SumOfIsFold
<1>4. ASSUME NEW s \in SUBSET U, s # {}
      PROVE  g[s] = w[Chosen[s]] + g[s \ {Chosen[s]}]
  <2>1. Chosen[s] \in s
    BY <1>1, <1>4, ChosenPicks DEF Picks
  <2>2. g[s \ {Chosen[s]}] \in Nat /\ Chosen[s] \in Nodes /\ Chosen[s] \in U
    BY <1>1, <2>1
  <2>3. g[s] = Adding[Chosen[s]][g[s \ {Chosen[s]}]]
    BY <1>3, <1>4 DEF IsFold
  <2> QED
    BY <1>2, <2>2, <2>3 DEF Adding
<1>5. Picks(Chosen, U)
  BY <1>1, ChosenPicks
<1>6. g[U] = w[n] + g[U \ {n}]
  <2>1. n \in U
    BY DEF U
  <2>2. IsSum(g, U, w, Chosen)
    BY <1>4 DEF IsSum
  <2>3. AnyOrder(g, U, w)
    BY <1>1, <1>5, <2>2, AnyElement
  <2> QED
    BY <2>1, <2>3 DEF AnyOrder
<1>7. SumOf(U) = g[U] /\ SumOf(S) = g[S] /\ g[S] \in Nat
  BY <1>1, <1>3, SumOfPart
<1>8. w[n] = Rounded(Price[n]) /\ w[n] \in Nat
  BY <1>2 DEF U
<1>a. g[U \ {n}] = g[S]
  BY <1>1, Zenon
<1>9. SumOf(U) = SumOf(S) + Rounded(Price[n])
  BY <1>6, <1>7, <1>8, <1>a
<1> QED
  BY <1>7, <1>9 DEF U

\* More nodes do not cost less.
LEMMA SumOfMore ==
  ASSUME NEW U \in SUBSET Nodes, IsFiniteSet(U), NEW S \in SUBSET U
  PROVE  SumOf(S) \in Nat /\ SumOf(S) <= SumOf(U)
<1>1. ASSUME NEW s \in SUBSET U PROVE IsFiniteSet(s) /\ SumOf(s) \in Nat
  <2>1. IsFiniteSet(s) /\ s \in SUBSET Nodes
    BY FS_Subset
  <2>2. PICK g \in [SUBSET s -> Nat] : SumOf(s) = g[s]
    BY <2>1, SumOfIsFold
  <2> QED
    BY <2>1, <2>2
<1> DEFINE B == {s \in SUBSET U : S \subseteq s /\ ~ (SumOf(S) <= SumOf(s))}
<1>2. B = {}
  <2> SUFFICES ASSUME B # {} PROVE FALSE
    OBVIOUS
  <2>1. PICK s \in B : \A t \in B : ~ (t \subseteq s /\ t # s)
    <3> HIDE DEF B
    <3>1. \A t \in B : IsFiniteSet(t)
      BY <1>1 DEF B
    <3> QED
      BY <3>1, SmallestSet
  <2>2. PICK x \in s : x \notin S
    BY <1>1
  <2>3. s \ {x} \notin B
    BY <2>1
  <2>4. SumOf(S) <= SumOf(s \ {x})
    BY <2>2, <2>3
  <2>5. SumOf(s) = SumOf(s \ {x}) + Rounded(Price[x])
    <3>1. s \ {x} \in SUBSET Nodes /\ IsFiniteSet(s \ {x}) /\ x \in Nodes \ (s \ {x})
      BY <1>1
    <3>2. (s \ {x}) \cup {x} = s
      OBVIOUS
    <3> QED
      BY <3>1, <3>2, SumOfAdd
  <2>6. Rounded(Price[x]) \in Nat /\ SumOf(s \ {x}) \in Nat
    BY <1>1, RoundedNat, PriceAssumption
  <2> QED
    BY <1>1, <2>4, <2>5, <2>6
<1> QED
  BY <1>1, <1>2

\* Nothing costs nothing.
LEMMA SumOfNothing == SumOf({}) = 0
<1>1. {} \in SUBSET Nodes /\ IsFiniteSet({})
  BY FS_EmptySet
<1>2. PICK g \in [SUBSET {} -> Nat] : SumOf({}) = g[{}] /\ IsFold(g, {}, 0, Adding, Chosen)
  BY <1>1, SumOfIsFold
<1> QED
  BY <1>2 DEF IsFold

\* Division of a sum with a multiple of the divisor.
LEMMA DivideSum ==
  ASSUME NEW t \in Nat, NEW y \in Nat, NEW d \in Nat \ {0}
  PROVE  (t * d + y) \div d = t + (y \div d)
<1> DEFINE q == y \div d
           r == y % d
<1>1. q \in Nat /\ r \in Nat /\ r < d /\ y = d * q + r
  OBVIOUS
<1> HIDE DEF q, r
<1>2. t * d + y = d * (t + q) + r
  BY <1>1
<1>3. \A k \in Nat, m \in 0..(d - 1) : (d * k + m) \div d = k
  OBVIOUS
<1> QED
  BY <1>1, <1>2, <1>3 DEF q

-----------------------------------------------------------------------------
(***************************************************************************)
(* Rounding a total whenever a node is charged loses nothing: a total is   *)
(* the sum of what it charges, each price rounded by itself.  As only      *)
(* billed nodes are charged, no user is overcharged.                       *)
(***************************************************************************)
Charged(bill) == {n \in Nodes : bill.charged[n] = 1}
Balanced(bill) == bill.total = SumOf(Charged(bill))

Balances ==
  /\ IsFiniteSet(billed)
  /\ flow # NoBill => Balanced(flow)
  /\ \A c \in Consumers : handler[c].pc \in {"node", "save"} => Balanced(handler[c].copy)

\* An amount in units of a total adds to a price outside its rounding.
LEMMA RoundedSum ==
  ASSUME NEW t \in Nat, NEW n \in Nodes
  PROVE  Rounded(t * Unit + Price[n]) = t + Rounded(Price[n])
<1> DEFINE y == 2 * Price[n] + Unit
           u == 2 * Unit
<1>1. y \in Nat /\ u \in Nat \ {0} /\ Price[n] \in Nat /\ Unit \in Nat
  BY PriceAssumption
<1>2. 2 * (t * Unit + Price[n]) + Unit = t * u + y
  <2>1. t * Unit \in Nat /\ t * u = 2 * (t * Unit)
    BY <1>1
  <2> QED
    BY <1>1, <2>1
<1> HIDE DEF y, u
<1>3. (t * u + y) \div u = t + (y \div u)
  BY <1>1, DivideSum
<1> QED
  BY <1>2, <1>3 DEF Rounded, y, u

\* Charging a node that a total does not contain keeps the total balanced.
LEMMA ChargeBalanced ==
  ASSUME NEW bill \in FlowBill, Balanced(bill), IsFiniteSet(Charged(bill)),
         NEW n \in Nodes, bill.charged[n] = 0
  PROVE  /\ Charged(Charge(bill, n)) = Charged(bill) \cup {n}
         /\ Balanced(Charge(bill, n))
<1>1. bill.total \in Nat /\ bill.charged \in [Nodes -> Nat]
  BY DEF FlowBill, Charges
<1>2. Charged(Charge(bill, n)) = Charged(bill) \cup {n}
  BY <1>1 DEF Charged, Charge
<1>3. Charge(bill, n).total = bill.total + Rounded(Price[n])
  BY <1>1, RoundedSum DEF Charge
<1>4. SumOf(Charged(bill) \cup {n}) = SumOf(Charged(bill)) + Rounded(Price[n])
  BY SumOfAdd DEF Charged
<1> QED
  BY <1>2, <1>3, <1>4 DEF Balanced

\* A total with nothing charged is balanced.
LEMMA NothingBalanced == Charged(NothingCharged) = {} /\ Balanced(NothingCharged)
<1>1. Charged(NothingCharged) = {}
  BY DEF Charged, NothingCharged
<1> QED
  BY <1>1, SumOfNothing DEF Balanced, NothingCharged

\* What a sound total charges is part of the bills.
LEMMA ChargedBilled ==
  ASSUME NEW bill, NEW bills, Sound(bill, bills)
  PROVE  Charged(bill) \subseteq bills
BY DEF Sound, Charged

\* A step that gives one consumer a balanced record, and writes no total.
LEMMA BecomeBalanced ==
  ASSUME TypeOK, Balances, NEW c \in Consumers, NEW r,
         handler' = [handler EXCEPT ![c] = r],
         r.pc \in {"node", "save"} => Balanced(r.copy),
         flow' # NoBill => Balanced(flow'), IsFiniteSet(billed')
  PROVE  Balances'
<1>1. \A d \in Consumers : handler'[d] = IF d = c THEN r ELSE handler[d]
  BY DEF TypeOK
<1>2. ASSUME NEW d \in Consumers, handler'[d].pc \in {"node", "save"}
      PROVE  Balanced(handler'[d].copy)
  BY <1>1, <1>2 DEF Balances
<1> QED
  BY <1>2 DEF Balances

\* A balanced copy of a sound total, in a state that is one of BillingInv.
LEMMA HeldCopy ==
  ASSUME BillingInv, NEW c \in Consumers, handler[c].pc \in Steps
  PROVE  /\ handler[c] \in Handler
         /\ handler[c].copy \in FlowBill /\ handler[c].node \in Nodes
         /\ handler[c].pc \in {"node", "save"} => Charged(handler[c].copy) \subseteq billed
<1>1. handler[c] \in Handler
  BY Serving DEF BillingInv
<1>2. handler[c].pc \in {"node", "save"} => Sound(handler[c].copy, billed)
  BY DEF BillingInv, HandlersSound, CopySound
<1> QED
  BY <1>1, <1>2, ChargedBilled DEF Handler

\* The steps of a consumer keep totals balanced.
LEMMA RecordBillBalances ==
  ASSUME BillingInv, Balances, NEW c \in Consumers, RecordBill(c)
  PROVE  Balances'
<1>1. TypeOK /\ handler[c].pc \in Steps
  BY DEF BillingInv, RecordBill, GetFlowBill, OpenFlowBill, InsertNodeBill, SaveFlowBill,
     ReadTotal, NotifyUser, At, Steps
<1>2. handler[c] \in Handler
  BY <1>1, HeldCopy
<1>3. ASSUME NEW pc, NEW copy, handler' = [handler EXCEPT ![c].pc = pc, ![c].copy = copy],
             Balanced(copy), UNCHANGED <<flow, billed>>
      PROVE  Balances'
  <2> DEFINE r == [handler[c] EXCEPT !.pc = pc, !.copy = copy]
  <2>1. r.copy = copy
    BY <1>2 DEF Handler
  <2>2. handler' = [handler EXCEPT ![c] = r]
    BY <1>3
  <2> HIDE DEF r
  <2> QED
    BY <1>1, <1>3, <2>1, <2>2, BecomeBalanced DEF Balances
<1>4. ASSUME Return(c), UNCHANGED <<flow, billed>> PROVE Balances'
  BY <1>1, <1>4, BecomeBalanced DEF Return, Idle, Balances
<1>5. CASE GetFlowBill(c)
  <2>1. CASE flow # NoBill
    BY <1>3, <1>5, <2>1 DEF GetFlowBill, Hold, Balances
  <2>2. CASE flow = NoBill
    <3> DEFINE r == [handler[c] EXCEPT !.pc = "open"]
    <3>1. r.pc = "open"
      BY <1>2 DEF Handler
    <3>2. handler' = [handler EXCEPT ![c] = r] /\ UNCHANGED <<flow, billed>>
      BY <1>5, <2>2 DEF GetFlowBill, Goto
    <3> HIDE DEF r
    <3> QED
      BY <1>1, <3>1, <3>2, BecomeBalanced DEF Balances
  <2> QED
    BY <2>1, <2>2
<1>6. CASE OpenFlowBill(c)
  <2>1. CASE flow # NoBill
    BY <1>4, <1>6, <2>1 DEF OpenFlowBill
  <2>2. CASE flow = NoBill
    <3> DEFINE r == [handler[c] EXCEPT !.pc = "node", !.copy = NothingCharged]
    <3>1. r.copy = NothingCharged
      BY <1>2 DEF Handler
    <3>2. handler' = [handler EXCEPT ![c] = r] /\ flow' = NothingCharged /\ billed' = billed
      BY <1>6, <2>2 DEF OpenFlowBill, Hold
    <3> HIDE DEF r
    <3> QED
      BY <1>1, <3>1, <3>2, NothingBalanced, BecomeBalanced DEF Balances
  <2> QED
    BY <2>1, <2>2
<1>7. CASE InsertNodeBill(c)
  <2>1. CASE handler[c].node \in billed
    BY <1>4, <1>7, <2>1 DEF InsertNodeBill
  <2>2. CASE handler[c].node \notin billed
    <3> DEFINE r == [handler[c] EXCEPT !.pc = "save"]
    <3>1. r.copy = handler[c].copy /\ handler[c].pc = "node"
      BY <1>2, <1>7 DEF Handler, InsertNodeBill, At
    <3>2. /\ handler' = [handler EXCEPT ![c] = r]
          /\ flow' = flow /\ billed' = billed \cup {handler[c].node}
      BY <1>7, <2>2 DEF InsertNodeBill, Goto
    <3>3. IsFiniteSet(billed')
      BY <3>2, FS_AddElement DEF Balances
    <3> HIDE DEF r
    <3> QED
      BY <1>1, <3>1, <3>2, <3>3, BecomeBalanced DEF Balances
  <2> QED
    BY <2>1, <2>2
<1>8. CASE SaveFlowBill(c)
  <2> DEFINE r == [handler[c] EXCEPT !.pc = "total"]
             bill == Charge(handler[c].copy, handler[c].node)
  <2>1. r.pc = "total" /\ handler[c].pc = "save"
    BY <1>2, <1>8 DEF Handler, SaveFlowBill, At
  <2>2. handler' = [handler EXCEPT ![c] = r] /\ flow' = bill /\ billed' = billed
    BY <1>8 DEF SaveFlowBill, Goto
  <2>3. Balanced(bill)
    <3>1. Balanced(handler[c].copy) /\ handler[c].copy.charged[handler[c].node] = 0
      BY <2>1 DEF Balances, BillingInv, HandlersSound, CopySound
    <3>2. IsFiniteSet(Charged(handler[c].copy))
      BY <1>1, <2>1, HeldCopy, FS_Subset DEF Balances
    <3> QED
      BY <1>1, <3>1, <3>2, HeldCopy, ChargeBalanced
  <2> HIDE DEF r, bill
  <2> QED
    BY <1>1, <2>1, <2>2, <2>3, BecomeBalanced DEF Balances
<1>9. CASE ReadTotal(c)
  <2>1. flow # NoBill
    BY <1>9 DEF ReadTotal, At, BillingInv, HandlersSound, TotalKept
  <2> QED
    BY <1>3, <1>9, <2>1 DEF ReadTotal, Hold, Balances
<1>10. CASE NotifyUser(c)
  BY <1>4, <1>10 DEF NotifyUser
<1> QED
  BY <1>5, <1>6, <1>7, <1>8, <1>9, <1>10 DEF RecordBill

\* Every step keeps totals balanced.
LEMMA NextBalances ==
  ASSUME BillingInv, Balances, [Next]_vars
  PROVE  Balances'
<1>1. TypeOK
  BY DEF BillingInv
<1>2. CASE UNCHANGED vars
  BY <1>2 DEF vars, Balances
<1>3. ASSUME NEW n \in Nodes, Publish(n) PROVE Balances'
  BY <1>3 DEF Publish, Balances
<1>4. ASSUME NEW c \in Consumers, NEW n \in Nodes, Receive(c, n) PROVE Balances'
  <2> DEFINE r == IF n \in Unbillable THEN Idle
                  ELSE [pc |-> "flow", node |-> n, copy |-> NothingCharged]
  <2>1. r.pc \in {"idle", "flow"}
    BY DEF Idle
  <2>2. handler' = [handler EXCEPT ![c] = r] /\ UNCHANGED <<flow, billed>>
    BY <1>4 DEF Receive
  <2> HIDE DEF r
  <2> QED
    BY <1>1, <2>1, <2>2, BecomeBalanced DEF Balances
<1>5. ASSUME NEW c \in Consumers, Fail(c) \/ Leave(c) PROVE Balances'
  <2>1. Return(c) /\ UNCHANGED <<flow, billed>>
    BY <1>5 DEF Fail, Leave
  <2> QED
    BY <1>1, <2>1, BecomeBalanced DEF Return, Idle, Balances
<1>6. ASSUME NEW c \in Consumers, RecordBill(c) PROVE Balances'
  BY <1>6, RecordBillBalances
<1> QED
  BY <1>2, <1>3, <1>4, <1>5, <1>6 DEF Next

\* Every total ever written, and every copy of one that is to be written, is
\* the sum of what it charges.
THEOREM TotalsBalance == Spec => [](BillingInv /\ Balances)
<1>1. Init => BillingInv /\ Balances
  BY InitIInv, FS_EmptySet DEF Init, Balances, Idle
<1>2. (BillingInv /\ Balances) /\ [Next]_vars => (BillingInv /\ Balances)'
  BY NextBalances, BillingStep
<1> QED
  BY <1>1, <1>2, PTL DEF Spec

\* No user pays more than the bills add up to, however many consumers overlap,
\* leave or fail: a lost update loses a charge and never adds one.
THEOREM NeverOverchargedAlways == Spec => []NeverOvercharged
<1>1. BillingInv /\ Balances => NeverOvercharged
  <2> SUFFICES ASSUME BillingInv, Balances, flow # NoBill PROVE flow.total <= SumOf(billed)
    BY DEF NeverOvercharged
  <2>1. Charged(flow) \in SUBSET billed /\ billed \in SUBSET Nodes
    BY ChargedBilled DEF BillingInv, ChargedOnce, TypeOK
  <2>2. flow.total = SumOf(Charged(flow)) /\ IsFiniteSet(billed)
    BY DEF Balances, Balanced
  <2> QED
    BY <2>1, <2>2, SumOfMore
<1> QED
  BY <1>1, TotalsBalance, PTL

-----------------------------------------------------------------------------
(***************************************************************************)
(* One consumer that does not leave, and whose write of the total does not *)
(* fail: between its messages the total charges exactly the billed nodes.  *)
(***************************************************************************)
Alone ==
  /\ \A c, d \in Consumers : c = d
  /\ MaxLeave = 0
  /\ "save" \notin FailAt

\* The bills that the row of the total accounts for.
Covered == IF flow = NoBill THEN {} ELSE Charged(flow)

\* Only between the bill of a node and the total that contains it, a bill is
\* not covered; the consumer's copy of the total is never stale.
InStep(h) ==
  /\ h.pc \in {"idle", "flow", "open", "node", "total", "notify"} => billed = Covered
  /\ h.pc = "open" => flow = NoBill
  /\ h.pc \in {"node", "save", "notify"} => h.copy = flow
  /\ h.pc = "save" => billed = Covered \cup {h.node}

AloneInv == \A c \in Consumers : InStep(handler[c])

\* The step of the only consumer decides.
LEMMA BecomeInStep ==
  ASSUME Alone, TypeOK, NEW c \in Consumers, NEW r, handler' = [handler EXCEPT ![c] = r],
         /\ r.pc \in {"idle", "flow", "open", "node", "total", "notify"} => billed' = Covered'
         /\ r.pc = "open" => flow' = NoBill
         /\ r.pc \in {"node", "save", "notify"} => r.copy = flow'
         /\ r.pc = "save" => billed' = Covered' \cup {r.node}
  PROVE  AloneInv'
<1>1. \A d \in Consumers : d = c /\ handler'[d] = r
  BY DEF Alone, TypeOK
<1> QED
  BY <1>1 DEF AloneInv, InStep

\* The steps of the only consumer.
LEMMA RecordBillInStep ==
  ASSUME Alone, BillingInv, Balances, AloneInv, NEW c \in Consumers, RecordBill(c)
  PROVE  AloneInv'
<1>1. TypeOK /\ handler[c].pc \in Steps
  BY DEF BillingInv, RecordBill, GetFlowBill, OpenFlowBill, InsertNodeBill, SaveFlowBill,
     ReadTotal, NotifyUser, At, Steps
<1>2. handler[c] \in Handler
  BY <1>1, HeldCopy
<1>3. InStep(handler[c])
  BY DEF AloneInv
<1>4. UNCHANGED <<flow, billed>> => Covered' = Covered
  BY DEF Covered
<1>5. ASSUME Return(c), UNCHANGED <<flow, billed>>, billed = Covered PROVE AloneInv'
  <2>1. Idle.pc = "idle"
    BY DEF Idle
  <2> QED
    BY <1>1, <1>4, <1>5, <2>1, BecomeInStep DEF Return
<1>6. ASSUME NEW pc \in {"node", "notify"}, flow # NoBill, billed = Covered,
             handler' = [handler EXCEPT ![c].pc = pc, ![c].copy = flow],
             UNCHANGED <<flow, billed>>
      PROVE  AloneInv'
  <2> DEFINE r == [handler[c] EXCEPT !.pc = pc, !.copy = flow]
  <2>1. r.pc = pc /\ r.copy = flow
    BY <1>2 DEF Handler
  <2>2. handler' = [handler EXCEPT ![c] = r]
    BY <1>6
  <2> HIDE DEF r
  <2> QED
    BY <1>1, <1>4, <1>6, <2>1, <2>2, BecomeInStep
<1>7. CASE GetFlowBill(c)
  <2>1. billed = Covered
    BY <1>3, <1>7 DEF InStep, GetFlowBill, At
  <2>2. CASE flow # NoBill
    BY <1>6, <1>7, <2>1, <2>2 DEF GetFlowBill, Hold
  <2>3. CASE flow = NoBill
    <3> DEFINE r == [handler[c] EXCEPT !.pc = "open"]
    <3>1. r.pc = "open"
      BY <1>2 DEF Handler
    <3>2. handler' = [handler EXCEPT ![c] = r] /\ UNCHANGED <<flow, billed>>
      BY <1>7, <2>3 DEF GetFlowBill, Goto
    <3> HIDE DEF r
    <3> QED
      BY <1>1, <1>4, <2>1, <2>3, <3>1, <3>2, BecomeInStep
  <2> QED
    BY <2>2, <2>3
<1>8. CASE OpenFlowBill(c)
  <2>1. flow = NoBill /\ billed = {}
    BY <1>3, <1>8 DEF InStep, OpenFlowBill, At, Covered
  <2> DEFINE r == [handler[c] EXCEPT !.pc = "node", !.copy = NothingCharged]
  <2>2. r.pc = "node" /\ r.copy = NothingCharged
    BY <1>2 DEF Handler
  <2>3. handler' = [handler EXCEPT ![c] = r] /\ flow' = NothingCharged /\ billed' = billed
    BY <1>8, <2>1 DEF OpenFlowBill, Hold
  <2>4. Covered' = {}
    BY <2>3, NothingBalanced DEF Covered
  <2> HIDE DEF r
  <2> QED
    BY <1>1, <2>1, <2>2, <2>3, <2>4, BecomeInStep
<1>9. CASE InsertNodeBill(c)
  <2>1. billed = Covered /\ handler[c].copy = flow
    BY <1>3, <1>9 DEF InStep, InsertNodeBill, At
  <2>2. CASE handler[c].node \in billed
    BY <1>5, <1>9, <2>1, <2>2 DEF InsertNodeBill
  <2>3. CASE handler[c].node \notin billed
    <3> DEFINE r == [handler[c] EXCEPT !.pc = "save"]
    <3>1. r.pc = "save" /\ r.copy = flow /\ r.node = handler[c].node
      BY <1>2, <2>1 DEF Handler
    <3>2. /\ handler' = [handler EXCEPT ![c] = r]
          /\ flow' = flow /\ billed' = billed \cup {handler[c].node}
      BY <1>9, <2>3 DEF InsertNodeBill, Goto
    <3>3. Covered' = Covered
      BY <3>2 DEF Covered
    <3> HIDE DEF r
    <3> QED
      BY <1>1, <2>1, <3>1, <3>2, <3>3, BecomeInStep
  <2> QED
    BY <2>2, <2>3
<1>10. CASE SaveFlowBill(c)
  <2> DEFINE r == [handler[c] EXCEPT !.pc = "total"]
             bill == Charge(handler[c].copy, handler[c].node)
  <2>1. r.pc = "total" /\ handler[c].pc = "save"
    BY <1>2, <1>10 DEF Handler, SaveFlowBill, At
  <2>2. handler' = [handler EXCEPT ![c] = r] /\ flow' = bill /\ billed' = billed
    BY <1>10 DEF SaveFlowBill, Goto
  <2>3. handler[c].copy = flow /\ billed = Covered \cup {handler[c].node} /\ flow # NoBill
    BY <1>3, <2>1 DEF InStep, BillingInv, HandlersSound, TotalKept
  <2>4. Charged(bill) = Charged(flow) \cup {handler[c].node} /\ bill # NoBill
    <3>1. Balanced(handler[c].copy) /\ handler[c].copy.charged[handler[c].node] = 0
      BY <2>1 DEF Balances, BillingInv, HandlersSound, CopySound
    <3>2. IsFiniteSet(Charged(handler[c].copy))
      BY <1>1, <2>1, HeldCopy, FS_Subset DEF Balances
    <3>3. bill \in FlowBill
      BY <1>1, HeldCopy, ChargeType
    <3> QED
      BY <1>1, <2>3, <3>1, <3>2, <3>3, HeldCopy, ChargeBalanced, BillingAssumption
  <2>5. Covered' = billed
    <3> HIDE DEF bill
    <3> QED
      BY <2>2, <2>3, <2>4 DEF Covered
  <2> HIDE DEF r, bill
  <2> QED
    BY <1>1, <2>1, <2>2, <2>5, BecomeInStep
<1>11. CASE ReadTotal(c)
  <2>1. flow # NoBill /\ billed = Covered
    BY <1>3, <1>11 DEF ReadTotal, At, BillingInv, HandlersSound, TotalKept, InStep
  <2> QED
    BY <1>6, <1>11, <2>1 DEF ReadTotal, Hold
<1>12. CASE NotifyUser(c)
  <2>1. billed = Covered
    BY <1>3, <1>12 DEF NotifyUser, At, InStep
  <2> QED
    BY <1>5, <1>12, <2>1 DEF NotifyUser
<1> QED
  BY <1>7, <1>8, <1>9, <1>10, <1>11, <1>12 DEF RecordBill

\* Every step keeps the only consumer in step.
LEMMA NextInStep ==
  ASSUME Alone, BillingInv, Balances, AloneInv, [Next]_vars
  PROVE  AloneInv'
<1>1. TypeOK
  BY DEF BillingInv
<1>2. CASE UNCHANGED vars
  BY <1>2 DEF vars, AloneInv, InStep, Covered
<1>3. ASSUME NEW n \in Nodes, Publish(n) PROVE AloneInv'
  BY <1>3 DEF Publish, AloneInv, InStep, Covered
<1>4. ASSUME NEW c \in Consumers, NEW n \in Nodes, Receive(c, n) PROVE AloneInv'
  <2> DEFINE r == IF n \in Unbillable THEN Idle
                  ELSE [pc |-> "flow", node |-> n, copy |-> NothingCharged]
  <2>1. r.pc \in {"idle", "flow"}
    BY DEF Idle
  <2>2. handler' = [handler EXCEPT ![c] = r] /\ UNCHANGED <<flow, billed>>
    BY <1>4 DEF Receive
  <2>3. billed' = Covered'
    BY <1>4, <2>2 DEF Receive, At, AloneInv, InStep, Covered
  <2> HIDE DEF r
  <2> QED
    BY <1>1, <2>1, <2>2, <2>3, BecomeInStep
<1>5. ASSUME NEW c \in Consumers, Fail(c) PROVE AloneInv'
  <2>1. Return(c) /\ UNCHANGED <<flow, billed>> /\ handler[c].pc \in Steps \ {"save"}
    BY <1>5, BillingAssumption DEF Fail, Alone
  <2>2. billed' = Covered'
    BY <2>1 DEF AloneInv, InStep, Covered, Steps
  <2>3. Idle.pc = "idle"
    BY DEF Idle
  <2> QED
    BY <1>1, <2>1, <2>2, <2>3, BecomeInStep DEF Return
<1>6. ASSUME NEW c \in Consumers, Leave(c) PROVE FALSE
  BY <1>1, <1>6 DEF Leave, Alone, TypeOK
<1>7. ASSUME NEW c \in Consumers, RecordBill(c) PROVE AloneInv'
  BY <1>7, RecordBillInStep
<1> QED
  BY <1>2, <1>3, <1>4, <1>5, <1>6, <1>7 DEF Next

\* What is sent to the user is the balanced total and the bills it charges.
LEMMA NextNotice ==
  ASSUME Alone, BillingInv, Balances, AloneInv, NoticeBalances, [Next]_vars
  PROVE  NoticeBalances'
<1>1. ASSUME NEW c \in Consumers, NotifyUser(c) PROVE NoticeBalances'
  <2>1. handler[c].copy = flow /\ flow # NoBill /\ billed = Charged(flow)
    BY <1>1 DEF NotifyUser, At, AloneInv, InStep, Covered, BillingInv, HandlersSound, TotalKept
  <2>2. notice' = [total |-> flow.total, bills |-> billed] /\ flow.total = SumOf(billed)
    BY <1>1, <2>1 DEF NotifyUser, Balances, Balanced
  <2> QED
    BY <2>2 DEF NoticeBalances
<1>2. CASE UNCHANGED notice
  BY <1>2 DEF NoticeBalances
<1>3. (\E c \in Consumers : NotifyUser(c)) \/ UNCHANGED notice
  BY DEF vars, Next, RecordBill, Publish, Receive, GetFlowBill, OpenFlowBill, InsertNodeBill,
     SaveFlowBill, ReadTotal, Fail, Leave
<1> QED
  BY <1>1, <1>2, <1>3

\* With one consumer that does not leave, the total the user is told is the
\* sum of the bills that come with it, whichever messages are repeated and
\* whichever statements fail, but the one that writes the total.
THEOREM NoticeBalancesAlways ==
  ASSUME Alone
  PROVE  Spec => []NoticeBalances
<1> DEFINE I == BillingInv /\ Balances /\ AloneInv /\ NoticeBalances
<1>1. Init => I
  <2> SUFFICES ASSUME Init PROVE I
    OBVIOUS
  <2>1. BillingInv /\ Balances
    BY InitIInv, FS_EmptySet DEF Init, Balances, Idle
  <2>2. AloneInv
    BY DEF Init, AloneInv, InStep, Covered, Idle
  <2>3. NoticeBalances
    BY DEF Init, NoticeBalances
  <2> QED
    BY <2>1, <2>2, <2>3
<1>2. I /\ [Next]_vars => I'
  BY BillingStep, NextBalances, NextInStep, NextNotice
<1>3. I => NoticeBalances
  OBVIOUS
<1> HIDE DEF I
<1> QED
  BY <1>1, <1>2, <1>3, PTL DEF Spec

=============================================================================
