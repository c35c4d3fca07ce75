------------------------------- MODULE Billing -------------------------------
(***************************************************************************)
(* The billing service, for one workflow instance: FlowNodeBillingService  *)
(* behind the consumers of the topic "bill".  The workflow engine sends a  *)
(* message when a node succeeds; a consumer prices the node, inserts a     *)
(* bill for it, and adds the price to the total of the instance, which it  *)
(* has read before.                                                        *)
(*                                                                         *)
(* A consumer takes message after message; several instances of the        *)
(* service form one consumer group and interleave at their awaits.  Kafka  *)
(* commits offsets periodically (enable.auto.commit), so a consumer that   *)
(* leaves the group may lose the message it handles, and messages it has   *)
(* handled may be delivered again.  An insert that meets an existing row   *)
(* ("on conflict do nothing") inserts nothing, which the database library  *)
(* reports as an error.  A handler that returns an error is logged and     *)
(* its message is not tried again.                                         *)
(***************************************************************************)
EXTENDS Naturals, FiniteSetsExt

CONSTANTS
  Nodes,       \* the nodes of the instance
  Unbillable,  \* nodes whose row has no cluster or meter: they cannot be priced
  Price,       \* Price[n]: the price of node n, in the smallest unit of a price
  Unit,        \* how many such units make the smallest unit of a total
  Consumers,   \* the running instances of the service
  NoBill,      \* no row
  NoNotice,    \* the user has not been told anything
  FailAt,      \* the steps at which a statement may fail in this model
  MaxPublish,  \* bound on the messages for one node
  MaxFail,     \* bound on failed statements
  MaxLeave     \* bound on consumers that leave the group

Charges == [Nodes -> Nat]
\* A total, with the nodes whose prices went into it (a history).
FlowBill == [total : Nat, charged : Charges]
Notice == [total : Nat, bills : SUBSET Nodes]
NothingCharged == [total |-> 0, charged |-> [n \in Nodes |-> 0]]

Steps == {"flow", "open", "node", "save", "total", "notify"}

ASSUME PriceAssumption ==
  /\ Unbillable \subseteq Nodes
  /\ Price \in [Nodes -> Nat]
  /\ Unit \in Nat \ {0}

ASSUME BillingAssumption ==
  /\ NoBill \notin FlowBill
  /\ NoNotice \notin Notice
  /\ FailAt \subseteq Steps
  /\ {MaxPublish, MaxFail, MaxLeave} \subseteq Nat

VARIABLES
  published,  \* how many messages the engine has sent for each node
  topic,      \* how many of them will still be delivered
  flow,       \* the row of table flow_instance_billing
  billed,     \* the nodes that have a row in table node_instance_billing
  handler,    \* what each consumer does
  notice,     \* what the web hook of the user was last told
  used        \* failures and departures so far

vars == <<published, topic, flow, billed, handler, notice, used>>

Handler == [pc : Steps, node : Nodes, copy : FlowBill]
Idle == [pc |-> "idle"]

TypeOK ==
  /\ published \in [Nodes -> Nat]
  /\ topic \in [Nodes -> Nat]
  /\ flow \in FlowBill \cup {NoBill}
  /\ billed \subseteq Nodes
  /\ handler \in [Consumers -> Handler \cup {Idle}]
  /\ notice \in Notice \cup {NoNotice}
  /\ used \in [fail : Nat, leave : Nat]

Init ==
  /\ published = [n \in Nodes |-> 0]
  /\ topic = [n \in Nodes |-> 0]
  /\ flow = NoBill
  /\ billed = {}
  /\ handler = [c \in Consumers |-> Idle]
  /\ notice = NoNotice
  /\ used = [fail |-> 0, leave |-> 0]

-----------------------------------------------------------------------------
(* Prices are kept with ten decimals, totals with two: the column          *)
(* total_price rounds, halves up, whenever a total is written.             *)
Rounded(x) == (2 * x + Unit) \div (2 * Unit)

\* Mutant: fractions of a cent are cut off, not rounded.
ChargeTruncated(bill, n) ==
  [total   |-> (bill.total * Unit + Price[n]) \div Unit,
   charged |-> [bill.charged EXCEPT ![n] = @ + 1]]

\* Mutant: fractions of a cent are rounded up.
ChargeUp(bill, n) ==
  [total   |-> (bill.total * Unit + Price[n] + Unit - 1) \div Unit,
   charged |-> [bill.charged EXCEPT ![n] = @ + 1]]

\* Add the price of node n to a total that was read, and write it.
Charge(bill, n) ==
  [total   |-> Rounded(bill.total * Unit + Price[n]),
   charged |-> [bill.charged EXCEPT ![n] = @ + 1]]

At(c, pc) == handler[c].pc = pc
Goto(c, pc) == handler' = [handler EXCEPT ![c].pc = pc]
Return(c) == handler' = [handler EXCEPT ![c] = Idle]
\* A consumer leaves with its copy of the total and goes to the next step.
Hold(c, pc, copy) == handler' = [handler EXCEPT ![c].pc = pc, ![c].copy = copy]

\* receive_node_status: a success is announced, possibly more than once.
Publish(n) ==
  /\ published[n] < MaxPublish
  /\ published' = [published EXCEPT ![n] = @ + 1]
  /\ topic' = [topic EXCEPT ![n] = @ + 1]
  /\ UNCHANGED <<flow, billed, handler, notice, used>>

\* Take a message, read the rows of its node and evaluate the formula; a node
\* that cannot be priced is an error.
Receive(c, n) ==
  /\ At(c, "idle")
  /\ topic[n] > 0
  /\ topic' = [topic EXCEPT ![n] = @ - 1]
  /\ handler' = [handler EXCEPT ![c] =
       IF n \in Unbillable THEN Idle
       ELSE [pc |-> "flow", node |-> n, copy |-> NothingCharged]]
  /\ UNCHANGED <<published, flow, billed, notice, used>>

\* Mutant: a missing row is an error, as it is in get_bill.
GetFlowBillOrFail(c) ==
  /\ At(c, "flow")
  /\ IF flow = NoBill THEN Return(c) ELSE Hold(c, "node", flow)
  /\ UNCHANGED <<published, topic, flow, billed, notice, used>>

\* Read the total; without a row one is to be inserted.
GetFlowBill(c) ==
  /\ At(c, "flow")
  /\ IF flow = NoBill THEN Goto(c, "open") ELSE Hold(c, "node", flow)
  /\ UNCHANGED <<published, topic, flow, billed, notice, used>>

\* Insert a row with nothing charged; if another consumer was first, fail.
OpenFlowBill(c) ==
  /\ At(c, "open")
  /\ IF flow = NoBill
     THEN flow' = NothingCharged /\ Hold(c, "node", NothingCharged)
     ELSE UNCHANGED flow /\ Return(c)
  /\ UNCHANGED <<published, topic, billed, notice, used>>

\* Mutant: a bill that exists already is no error.
InsertNodeBillAgain(c) ==
  /\ At(c, "node")
  /\ billed' = billed \cup {handler[c].node}
  /\ Goto(c, "save")
  /\ UNCHANGED <<published, topic, flow, notice, used>>

\* Insert the bill of the node, at once; a node that has one fails here, before
\* it is charged again.
InsertNodeBill(c) ==
  /\ At(c, "node")
  /\ IF handler[c].node \in billed
     THEN UNCHANGED billed /\ Return(c)
     ELSE billed' = billed \cup {handler[c].node} /\ Goto(c, "save")
  /\ UNCHANGED <<published, topic, flow, notice, used>>

\* Write the total: the copy read before, and the price of this node.
SaveFlowBill(c) ==
  /\ At(c, "save")
  /\ flow' = Charge(handler[c].copy, handler[c].node)
  /\ Goto(c, "total")
  /\ UNCHANGED <<published, topic, billed, notice, used>>

\* Read the total again, then the bills, and send both to the user.
ReadTotal(c) ==
  /\ At(c, "total")
  /\ Hold(c, "notify", flow)
  /\ UNCHANGED <<published, topic, flow, billed, notice, used>>

NotifyUser(c) ==
  /\ At(c, "notify")
  /\ notice' = [total |-> handler[c].copy.total, bills |-> billed]
  /\ Return(c)
  /\ UNCHANGED <<published, topic, flow, billed, used>>

\* A statement fails, or the user has no web hook: the error is logged.
Fail(c) ==
  /\ handler[c].pc \in FailAt
  /\ used.fail < MaxFail
  /\ used' = [used EXCEPT !.fail = @ + 1]
  /\ Return(c)
  /\ UNCHANGED <<published, topic, flow, billed, notice>>

\* A consumer crashes or is thought dead.  Of the messages delivered since the
\* last commit of offsets, some are delivered again.
Leave(c) ==
  /\ used.leave < MaxLeave
  /\ used' = [used EXCEPT !.leave = @ + 1]
  /\ Return(c)
  /\ \E again \in SUBSET {n \in Nodes : topic[n] < published[n]} :
       topic' = [n \in Nodes |-> IF n \in again THEN topic[n] + 1 ELSE topic[n]]
  /\ UNCHANGED <<published, flow, billed, notice>>

RecordBill(c) ==
  \/ GetFlowBill(c) \/ OpenFlowBill(c) \/ InsertNodeBill(c)
  \/ SaveFlowBill(c) \/ ReadTotal(c) \/ NotifyUser(c)

Next ==
  \/ \E n \in Nodes : Publish(n)
  \/ \E c \in Consumers :
       \/ \E n \in Nodes : Receive(c, n)
       \/ RecordBill(c)
       \/ Fail(c)
       \/ Leave(c)

Spec == Init /\ [][Next]_vars

\* The consumers keep polling, and the runtime keeps running what they await.
FairSpec ==
  /\ Spec
  /\ \A c \in Consumers :
       WF_vars(RecordBill(c)) /\ WF_vars(\E n \in Nodes : Receive(c, n))

-----------------------------------------------------------------------------
(* Properties.                                                             *)

\* What a total may contain: every node at most once, and only with a bill.
Sound(bill, bills) == \A n \in Nodes :
  /\ bill.charged[n] <= 1
  /\ bill.charged[n] = 1 => n \in bills

\* Whatever consumers overlap, leave or are told twice, a total never contains
\* a node twice, nor one without a bill (record_bill inserts the bill of the
\* node before it writes the total).
ChargedOnce == flow # NoBill => Sound(flow, billed)

\* The bills as the user sees them, each rounded when it is read.
SumOf(bills) == MapThenSumSet(LAMBDA n : Rounded(Price[n]), bills)

\* A user never pays more than the bills of the nodes add up to, although
\* totals are rounded whenever a node is charged and overlapping consumers
\* write totals they read before (record_bill, insert_or_update).
NeverOvercharged == flow # NoBill => flow.total <= SumOf(billed)

\* With one consumer that does not leave, what the web hook is told adds up:
\* the total is the sum of the bills shown, to the cent, with repeated
\* messages, nodes that cannot be priced, and failures of any statement but
\* the last one that writes.
NoticeBalances == notice # NoNotice => notice.total = SumOf(notice.bills)

\* With one consumer that neither fails nor leaves, every announced node that
\* can be priced ends up in the total, and stays there.
EventuallyCharged == \A n \in Nodes \ Unbillable :
  published[n] > 0 ~> [](flow # NoBill /\ flow.charged[n] = 1)

\* What makes ChargedOnce inductive: a copy of the total was sound when it was
\* read, and bills are never deleted; a node about to be charged had no bill
\* until its consumer inserted one, so no copy read before contains it.
CopySound(h, bills) ==
  /\ h.pc = "node" => Sound(h.copy, bills)
  /\ h.pc = "save" =>
       /\ Sound(h.copy, bills)
       /\ h.node \in bills
       /\ h.copy.charged[h.node] = 0

\* A consumer that has charged a node finds a total when it reads it again.
TotalKept(h, row) == h.pc \in {"node", "save", "total", "notify"} => row # NoBill

HandlersSound ==
  \A c \in Consumers : CopySound(handler[c], billed) /\ TotalKept(handler[c], flow)

BillingInv == TypeOK /\ ChargedOnce /\ HandlersSound

=============================================================================
