----------------------------- MODULE WidgetProofs -----------------------------
(***************************************************************************)
(* What holds of the window and the tray icon for any transfers, any ids   *)
(* they share, and any number of signals on their way.                     *)
(***************************************************************************)
EXTENDS Widget, FiniteSetTheorems, TLAPS

Kinds == {"onBegin", "onUpdate", "ended", "failed"}
Signals == [kind : Kinds, of : Transfers]
Positions == 1..Len(bus)

\* Nothing of t has reached the widget.
Untouched(t) ==
    /\ t \notin replaced \cup mistaken
    /\ \A b \in Boxes : t \notin rows[b]
    /\ \A id \in Ids : files[id] # t /\ received[id] # t

BeginComes(t) == \E n \in Positions : bus[n].kind = "onBegin" /\ bus[n].of = t
EndComes(t) == \E n \in Positions : bus[n].kind \in {"ended", "failed"} /\ bus[n].of = t

\* A transfer begins once, in front of its other signals.
BusInv ==
    /\ phase \in [Transfers -> {"new", "begun", "ended", "killed"}]
    /\ bus \in Seq(Signals)
    /\ widget # "open" => bus = <<>>
    /\ \A n \in Positions : phase[bus[n].of] # "new"
    /\ \A m, n \in Positions : bus[m].kind = "onBegin" /\ bus[m].of = bus[n].of => m <= n
    /\ \A t \in Transfers :
           /\ phase[t] = "new" \/ BeginComes(t) => Untouched(t)
           /\ BeginComes(t) /\ phase[t] = "ended" => EndComes(t)

\* What the widget was not there to hear of is not known to it.
MissedInv ==
    /\ missed \subseteq Transfers
    /\ \A t \in missed : phase[t] # "new" /\ ~BeginComes(t) /\ Untouched(t)
    /\ widget = "closed" => \A t \in Transfers : phase[t] = "new" \/ t \in missed

\* A transfer ends once.
IsEnd(n) == bus[n].kind \in {"ended", "failed"}
EndInv ==
    /\ \A n \in Positions : IsEnd(n) => phase[bus[n].of] = "ended"
    /\ \A m, n \in Positions : IsEnd(m) /\ IsEnd(n) /\ bus[m].of = bus[n].of => m = n

\* The entries have rows, or had them.
EntriesInv ==
    /\ files \in [Ids -> Transfers \cup {None}]
    /\ received \in [Ids -> Transfers \cup {None}]
    /\ \A id \in Ids :
           /\ files[id] # None => Id[files[id]] = id /\ files[id] \in rows["all"]
           /\ received[id] # None => Id[received[id]] = id /\ received[id] \notin rows["all"]

RowsInv ==
    /\ rows \in [Boxes -> SUBSET Transfers]
    /\ rows["all"] = rows["send"] \cup rows["recv"]
    /\ rows["send"] \subseteq Uploads /\ rows["recv"] \cap Uploads = {}
    /\ status \in [Transfers -> {0, 1, 3, 4, 6, 7}]
    /\ \A b \in Boxes : \A t \in rows[b] : status[t] # 0
    /\ mistaken \subseteq Transfers \ rows["all"]

CountInv ==
    /\ sendFileCount = Cardinality(rows["send"]) + Cardinality(mistaken \cap Uploads)
    /\ recvFileCount = Cardinality(rows["recv"]) + Cardinality(mistaken \ Uploads)

\* A row belongs to the entry of its id, and goes with the end that is on its way.
FollowInv ==
    \A t \in Transfers \ (replaced \cup mistaken) :
        /\ t \in rows["all"] => files[Id[t]] = t
        /\ t \in rows["all"] /\ widget = "open" /\ phase[t] = "ended" => EndComes(t)
        /\ t \in rows["recved"] => received[Id[t]] = t

\* Between its begin and its end a transfer has a row.
Exempt == replaced \cup mistaken \cup misled \cup missed
Shows(t) ==
    /\ widget = "open" /\ phase[t] # "new" /\ ~BeginComes(t)
    /\ phase[t] = "ended" => EndComes(t)
ShownInv == \A t \in Transfers \ Exempt : Shows(t) => t \in rows["all"]

IconInv ==
    /\ cnt \in Nat /\ animating \in BOOLEAN /\ told \in BOOLEAN
    /\ told => widget # "closed"
    /\ told => LET recv == recvFileCount > 0
                   send == sendFileCount > 0
               IN  /\ ~animem /\ (animating <=> (recv # send))
                   /\ icon \in {"main", "uploaddownload", "dlAnim", "ulAnim"}
                   /\ IconFollows

ClosedInv == widget = "closed" => rows["all"] = {}

\* The entries and the rows of received files are of items that exist.
ItemsInv ==
    /\ widget # "corrupt"
    /\ \A id \in Ids : received[id] # None => status[received[id]] # 0

Inv ==
    /\ BusInv /\ MissedInv /\ EndInv /\ EntriesInv /\ RowsInv /\ CountInv /\ FollowInv /\ ShownInv
    /\ ClosedInv /\ ItemsInv /\ IconInv

-----------------------------------------------------------------------------
(* Signals.                                                                *)

LEMMA SignalTypes ==
    ASSUME BusInv
    PROVE  /\ Len(bus) \in Nat
           /\ \A n \in Positions : bus[n].kind \in Kinds /\ bus[n].of \in Transfers
<1>1. bus \in Seq(Signals)
  BY DEF BusInv
<1>2. Len(bus) \in Nat /\ \A n \in Positions : bus[n] \in Signals
  BY <1>1 DEF Positions
<1> QED
  BY <1>2 DEF Signals

LEMMA SendsOne ==
    ASSUME BusInv, NEW t \in Transfers, NEW kind \in Kinds, Emit(kind, t)
    PROVE  /\ bus' \in Seq(Signals)
           /\ \/ /\ widget = "open" /\ Len(bus') = Len(bus) + 1
                 /\ \A n \in Positions : bus'[n] = bus[n]
                 /\ bus'[Len(bus) + 1] = [kind |-> kind, of |-> t]
              \/ widget # "open" /\ bus' = bus /\ bus = <<>>
<1>1. bus \in Seq(Signals) /\ [kind |-> kind, of |-> t] \in Signals
  BY DEF BusInv, Signals
<1>2. CASE widget = "open"
  BY <1>1, <1>2 DEF Emit, Positions
<1>3. CASE widget # "open"
  BY <1>1, <1>3 DEF Emit, BusInv
<1> QED
  BY <1>2, <1>3

LEMMA TakesOne ==
    ASSUME BusInv, bus # <<>>, bus' = Tail(bus)
    PROVE  /\ bus' \in Seq(Signals) /\ Len(bus) \in Nat \ {0} /\ Len(bus') = Len(bus) - 1
           /\ \A n \in 1..Len(bus') : bus'[n] = bus[n + 1]
           /\ Subject = bus[1].of /\ Subject \in Transfers /\ bus[1].kind \in Kinds
<1>1. bus \in Seq(Signals)
  BY DEF BusInv
<1>2. Len(bus) \in Nat \ {0} /\ bus[1] \in Signals
  BY <1>1
<1> QED
  BY <1>1, <1>2 DEF Subject, Signals

\* Taking a signal keeps their order, and leaves what has not reached the widget alone.
LEMMA TakesInOrder ==
    ASSUME BusInv, bus # <<>>, bus' = Tail(bus), UNCHANGED phase
    PROVE  /\ \A n \in Positions' : phase[bus'[n].of] # "new"
           /\ \A m, n \in Positions' : bus'[m].kind = "onBegin" /\ bus'[m].of = bus'[n].of => m <= n
           /\ \A t \in Transfers :
                  /\ phase[t] = "new" \/ BeginComes(t)' => Untouched(t) /\ t # Subject
                  /\ BeginComes(t)' /\ phase[t] = "ended" => EndComes(t)'
                  /\ EndComes(t) /\ ~EndComes(t)' => t = Subject /\ Head(bus).kind \in {"ended", "failed"}
<1>1. /\ Len(bus) \in Nat \ {0} /\ Len(bus') = Len(bus) - 1
      /\ \A n \in 1..Len(bus') : bus'[n] = bus[n + 1]
      /\ Subject = bus[1].of /\ Subject \in Transfers /\ Head(bus) = bus[1]
  BY TakesOne DEF BusInv
<1>2. \A n \in Positions' : n + 1 \in Positions /\ bus'[n] = bus[n + 1]
  BY <1>1 DEF Positions
<1>3. \A n \in Positions' : phase[bus'[n].of] # "new"
  BY <1>2 DEF BusInv
<1>4. ASSUME NEW m \in Positions', NEW n \in Positions', bus'[m].kind = "onBegin", bus'[m].of = bus'[n].of
      PROVE  m <= n
  <2>1. m + 1 <= n + 1 /\ m \in Int /\ n \in Int
    BY <1>2, <1>4 DEF BusInv, Positions
  <2> QED
    BY <2>1
<1>5. ASSUME NEW t \in Transfers, EndComes(t), ~EndComes(t)'
      PROVE  t = Subject /\ Head(bus).kind \in {"ended", "failed"}
  <2>1. PICK m \in Positions : bus[m].kind \in {"ended", "failed"} /\ bus[m].of = t
    BY <1>5 DEF EndComes
  <2>2. CASE m = 1
    BY <1>1, <2>1, <2>2
  <2>3. CASE m # 1
    <3>1. m - 1 \in Positions' /\ bus'[m - 1] = bus[m]
      BY <1>1, <2>3 DEF Positions
    <3> QED
      BY <1>5, <2>1, <3>1 DEF EndComes
  <2> QED
    BY <2>2, <2>3
<1>6. ASSUME NEW t \in Transfers, BeginComes(t)'
      PROVE  BeginComes(t) /\ t # Subject
  <2>1. PICK n \in Positions' : bus'[n].kind = "onBegin" /\ bus'[n].of = t
    BY <1>6 DEF BeginComes
  <2>2. n + 1 \in Positions /\ bus[n + 1].kind = "onBegin" /\ bus[n + 1].of = t
    BY <1>2, <2>1
  <2>3. 1 \in Positions /\ ~(n + 1 <= 1)
    BY <1>1 DEF Positions
  <2> QED
    BY <1>1, <2>2, <2>3 DEF BeginComes, BusInv
<1>7. ASSUME NEW t \in Transfers, phase[t] = "new"
      PROVE  t # Subject
  BY <1>1, <1>7 DEF BusInv, Positions
<1> QED
  BY <1>3, <1>4, <1>5, <1>6, <1>7 DEF BusInv

\* A transfer's own steps keep the order: it begins once, and then sends only what follows.
LEMMA SendsInOrder ==
    ASSUME BusInv, NEW t \in Transfers, OnBegin(t) \/ OnUpdate(t) \/ OnEnd(t) \/ Killed(t)
    PROVE  BusInv'
<1>1. UNCHANGED <<widget, items, replaced, mistaken>>
  BY DEF OnBegin, OnUpdate, OnEnd, Killed, history
<1>2. \A u \in Transfers : Untouched(u)' <=> Untouched(u)
  BY <1>1 DEF Untouched, items
<1>3. ASSUME NEW kind \in Kinds, Emit(kind, t), NEW ph \in {"begun", "ended"},
             phase' = [phase EXCEPT ![t] = ph],
             \/ phase[t] = "new" /\ kind = "onBegin" /\ ph = "begun"
             \/ phase[t] = "begun" /\ kind = "onUpdate" /\ ph = "begun"
             \/ phase[t] = "begun" /\ kind \in {"ended", "failed"} /\ ph = "ended"
      PROVE  BusInv'
  <2>1. phase' \in [Transfers -> {"new", "begun", "ended", "killed"}]
    BY <1>3 DEF BusInv
  <2>2. bus' \in Seq(Signals) /\ (widget' # "open" => bus' = <<>>)
    BY <1>1, <1>3, SendsOne
  <2>3. CASE widget = "open"
    <3>1. /\ Len(bus') = Len(bus) + 1 /\ Len(bus) \in Nat
          /\ \A n \in Positions : bus'[n] = bus[n]
          /\ bus'[Len(bus) + 1].kind = kind /\ bus'[Len(bus) + 1].of = t
      <4>1. bus'[Len(bus) + 1] = [kind |-> kind, of |-> t]
        BY <1>3, <2>3, SendsOne
      <4> QED
        BY <1>3, <2>3, <4>1, SendsOne, SignalTypes
    <3>2. Positions' = Positions \cup {Len(bus) + 1}
      BY <3>1 DEF Positions
    <3>3. \A n \in Positions' : phase'[bus'[n].of] # "new"
      <4>1. \A n \in Positions : bus[n].of \in Transfers
        BY SignalTypes
      <4> QED
        BY <1>3, <3>1, <3>2, <4>1 DEF BusInv
    <3>4. ASSUME NEW m \in Positions', NEW n \in Positions', bus'[m].kind = "onBegin",
                 bus'[m].of = bus'[n].of
          PROVE  m <= n
      <4>1. CASE m \in Positions /\ n \in Positions
        BY <3>1, <3>4, <4>1 DEF BusInv
      <4>2. CASE n = Len(bus) + 1
        BY <3>1, <3>2, <4>2 DEF Positions
      <4>3. CASE m = Len(bus) + 1 /\ n \in Positions
        <5>1. phase[t] = "new" /\ bus[n].of = t
          BY <1>3, <3>1, <3>4, <4>3
        <5> QED
          BY <4>3, <5>1 DEF BusInv
      <4> QED
        BY <3>2, <4>1, <4>2, <4>3
    <3>5. ASSUME NEW u \in Transfers, phase'[u] = "new" \/ BeginComes(u)'
          PROVE  Untouched(u)'
      <4>1. BeginComes(u)' => BeginComes(u) \/ (u = t /\ phase[t] = "new")
        BY <1>3, <3>1, <3>2 DEF BeginComes
      <4>2. phase'[u] = "new" => phase[u] = "new"
        BY <1>3 DEF BusInv
      <4> QED
        BY <1>2, <3>5, <4>1, <4>2 DEF BusInv
    <3>6. ASSUME NEW u \in Transfers, BeginComes(u)', phase'[u] = "ended"
          PROVE  EndComes(u)'
      <4>1. CASE u = t
        <5>1. kind \in {"ended", "failed"}
          BY <1>3, <3>6, <4>1 DEF BusInv
        <5> QED
          BY <3>1, <3>2, <4>1, <5>1 DEF EndComes
      <4>2. CASE u # t
        <5>1. BeginComes(u) /\ phase[u] = "ended"
          BY <1>3, <3>1, <3>2, <3>6, <4>2 DEF BeginComes, BusInv
        <5> QED
          BY <3>1, <3>2, <5>1 DEF EndComes, BusInv
      <4> QED
        BY <4>1, <4>2
    <3> QED
      BY <2>1, <2>2, <3>3, <3>4, <3>5, <3>6 DEF BusInv
  <2>4. CASE widget # "open"
    <3>1. bus' = <<>> /\ Positions' = {}
      BY <1>1, <2>2, <2>4 DEF Positions
    <3>2. \A u \in Transfers : ~BeginComes(u)'
      BY <3>1 DEF BeginComes
    <3>3. \A u \in Transfers : phase'[u] = "new" => phase[u] = "new"
      BY <1>3 DEF BusInv
    <3> QED
      BY <1>2, <2>1, <2>2, <3>1, <3>2, <3>3 DEF BusInv
  <2> QED
    BY <2>3, <2>4
<1>4. CASE OnBegin(t)
  BY <1>3, <1>4 DEF OnBegin, Kinds
<1>5. CASE OnUpdate(t)
  <2>1. phase' = [phase EXCEPT ![t] = "begun"]
    BY <1>5 DEF OnUpdate, BusInv
  <2> QED
    BY <1>3, <1>5, <2>1 DEF OnUpdate, Kinds
<1>6. CASE OnEnd(t)
  BY <1>3, <1>6 DEF OnEnd, Kinds
<1>7. CASE Killed(t)
  <2>1. phase' = [phase EXCEPT ![t] = "killed"] /\ phase[t] = "begun" /\ UNCHANGED bus
    BY <1>7 DEF Killed
  <2>2. \A u \in Transfers : /\ phase'[u] = "new" => phase[u] = "new"
                             /\ phase'[u] = "ended" => phase[u] = "ended"
    BY <2>1 DEF BusInv
  <2>3. phase' \in [Transfers -> {"new", "begun", "ended", "killed"}]
    BY <2>1 DEF BusInv
  <2>4. \A n \in Positions : phase'[bus[n].of] # "new"
    <3>1. \A n \in Positions : bus[n].of \in Transfers
      BY SignalTypes
    <3> QED
      BY <2>2, <3>1 DEF BusInv
  <2> QED
    BY <1>1, <1>2, <2>1, <2>2, <2>3, <2>4 DEF BusInv, Positions, BeginComes, EndComes
<1> QED
  BY <1>4, <1>5, <1>6, <1>7

\* A handler touches only the item of its signal and the one it finds under that id.
LEMMA HandlesElsewhere ==
    ASSUME BusInv, RowsInv, EntriesInv, Handle, NEW u \in Transfers, Untouched(u),
           addFile => u # Subject
    PROVE  Untouched(u)'
<1>1. bus # <<>> /\ bus' = Tail(bus)
  BY DEF Handle, addFile, updateBytes, fileEnded, unknownFile, Signal, Taken
<1>2. Subject \in Transfers /\ Id[Subject] \in Ids
  BY <1>1, TakesOne, WidgetOK
<1>3. u # Found
  BY <1>2 DEF Untouched, Found
<1>4. CASE addFile
  <2>1. /\ files' = [files EXCEPT ![Id[Subject]] = Subject] /\ UNCHANGED <<received, mistaken>>
        /\ replaced' \subseteq replaced \cup {Found}
        /\ rows' = AddedRows
    BY <1>4 DEF addFile
  <2>2. \A b \in Boxes : u \notin rows'[b]
    BY <1>4, <2>1 DEF Untouched, RowsInv, AddedRows
  <2> QED
    BY <1>3, <1>4, <2>1, <2>2 DEF Untouched, EntriesInv
<1>5. CASE updateBytes \/ unknownFile
  BY <1>5 DEF updateBytes, unknownFile, Untouched, items, history
<1>6. CASE fileEnded
  <2>1. files' = Erased(files, Id[Subject]) /\ UNCHANGED mistaken /\ rows' = MovedRows
    BY <1>6 DEF fileEnded
  <2>2. \/ UNCHANGED <<received, replaced>>
        \/ /\ received' = [received EXCEPT ![Id[Found]] = Found]
           /\ replaced' = replaced \cup ({received[Id[Found]]} \ {None})
    BY <1>6 DEF fileEnded
  <2>3. \A b \in Boxes : rows'[b] \subseteq rows[b] \cup {Found}
    BY <2>1 DEF MovedRows, Without, RowsInv, Boxes
  <2>4. Found \in Transfers /\ Id[Found] \in Ids
    BY <1>2, <1>6, WidgetOK DEF fileEnded, EntriesInv, Found
  <2>5. \A id \in Ids : files'[id] # u /\ received'[id] # u
    BY <1>3, <2>1, <2>2, WidgetOK DEF Untouched, EntriesInv, Erased
  <2>6. u \notin replaced' \cup mistaken'
    BY <2>1, <2>2, <2>4 DEF Untouched
  <2> QED
    BY <1>3, <2>3, <2>5, <2>6 DEF Untouched
<1> QED
  BY <1>4, <1>5, <1>6 DEF Handle

LEMMA HandlesInOrder ==
    ASSUME BusInv, RowsInv, EntriesInv, Handle
    PROVE  BusInv'
<1>1. bus # <<>> /\ bus' = Tail(bus) /\ UNCHANGED <<phase, widget>> /\ widget = "open"
  BY DEF Handle, addFile, updateBytes, fileEnded, unknownFile, Signal, Taken
<1>2. ASSUME NEW u \in Transfers, phase[u] = "new" \/ BeginComes(u)'
      PROVE  Untouched(u)'
  BY <1>1, <1>2, TakesInOrder, HandlesElsewhere
<1>3. bus' \in Seq(Signals)
  BY <1>1, TakesOne
<1> QED
  BY <1>1, <1>2, <1>3, TakesInOrder DEF BusInv

\* A crash takes the signals with it.
LEMMA CrashKeeps ==
    ASSUME crash
    PROVE  /\ UNCHANGED <<phase, items, counts, tray, history>>
           /\ bus' = <<>> /\ Positions' = {} /\ widget = "open"
           /\ widget' = IF UsesDeleted THEN "corrupt" ELSE "crashed"
           /\ \A t : ~BeginComes(t)' /\ ~EndComes(t)' /\ (Untouched(t)' <=> Untouched(t))
<1>1. /\ UNCHANGED <<phase, items, counts, tray, history>> /\ bus' = <<>> /\ widget = "open"
      /\ widget' = IF UsesDeleted THEN "corrupt" ELSE "crashed"
  BY DEF crash
<1>2. Positions' = {}
  BY <1>1 DEF Positions
<1> QED
  BY <1>1, <1>2 DEF BeginComes, EndComes, Untouched, items, history

\* A click touches only the item it hits.
LEMMA ClickElsewhere ==
    ASSUME NEW t \in Transfers, removeFile(t), EntriesInv, NEW u \in Transfers, Untouched(u)
    PROVE  Untouched(u)'
<1>1. /\ UNCHANGED replaced /\ Clicked(t) # None
      /\ rows' = [b \in Boxes |-> rows[b] \ {Clicked(t)}]
      /\ \A id \in Ids : files'[id] \in {files[id], None} /\ received'[id] \in {received[id], None}
      /\ mistaken' \subseteq mistaken \cup {files[Id[t]]}
  BY DEF removeFile, Clicked, EntriesInv, Erased
<1>2. Id[t] \in Ids
  BY WidgetOK
<1> QED
  BY <1>1, <1>2, WidgetOK DEF Untouched, Boxes

LEMMA BusStep ==
    ASSUME BusInv, RowsInv, EntriesInv, [Next]_vars
    PROVE  BusInv'
<1>1. CASE UNCHANGED vars \/ timer \/ timerBlinks
  BY <1>1 DEF vars, transfers, items, history, timer, timerBlinks, BusInv, Positions, BeginComes,
              EndComes, Untouched
<1>2. CASE Open
  BY <1>2 DEF transfers, items, history, Open, BusInv, Positions, BeginComes, EndComes, Untouched
<1>3. CASE Handle
  BY <1>3, HandlesInOrder
<1>4. ASSUME NEW t \in Transfers, OnBegin(t) \/ OnUpdate(t) \/ OnEnd(t) \/ Killed(t) PROVE BusInv'
  BY <1>4, SendsInOrder
<1>5. ASSUME NEW t \in Transfers, removeFile(t) PROVE BusInv'
  <2>1. UNCHANGED <<transfers, widget>>
    BY <1>5 DEF removeFile
  <2>2. \A u \in Transfers : Untouched(u) => Untouched(u)'
    BY <1>5, ClickElsewhere
  <2> QED
    BY <2>1, <2>2 DEF BusInv, Positions, BeginComes, EndComes, transfers
<1>6. CASE crash
  BY <1>6, CrashKeeps DEF BusInv
<1> QED
  BY <1>1, <1>2, <1>3, <1>4, <1>5, <1>6 DEF Next

-----------------------------------------------------------------------------
(* Items.                                                                  *)

\* Which steps leave the items and the counts alone.
LEMMA Elsewhere ==
    ASSUME [Next]_vars
    PROVE  \/ UNCHANGED <<items, counts, replaced, mistaken, misled>>
           \/ addFile \/ updateBytes \/ fileEnded \/ \E t \in Transfers : removeFile(t)
BY DEF Next, vars, Open, timer, timerBlinks, Handle, crash, unknownFile, OnBegin, OnUpdate, OnEnd,
       Killed, history

\* What an onBegin finds, and what an end finds.
LEMMA AtBegin ==
    ASSUME BusInv, addFile
    PROVE  /\ Subject \in Transfers /\ Id[Subject] \in Ids /\ Untouched(Subject)
           /\ phase[Subject] # "new" /\ \A t : t = Subject => BeginComes(t)
<1>1. bus # <<>> /\ bus' = Tail(bus) /\ Head(bus).kind = "onBegin"
  BY DEF addFile, Signal, Taken
<1>2. Subject = bus[1].of /\ bus[1].kind = "onBegin" /\ 1 \in Positions /\ Subject \in Transfers
  BY <1>1, TakesOne DEF Positions, BusInv
<1>3. BeginComes(Subject)
  BY <1>2 DEF BeginComes
<1> QED
  BY <1>2, <1>3, WidgetOK DEF BusInv

LEMMA AtEnd ==
    ASSUME BusInv, EntriesInv, RowsInv, fileEnded \/ updateBytes
    PROVE  /\ Subject \in Transfers /\ Id[Subject] \in Ids
           /\ Found \in Transfers /\ Id[Found] = Id[Subject] /\ Found \in rows["all"]
           /\ files[Id[Found]] = Found
<1>1. bus # <<>> /\ bus' = Tail(bus) /\ Found # None
  BY DEF fileEnded, updateBytes, Signal, Taken
<1>2. Subject \in Transfers /\ Id[Subject] \in Ids
  BY <1>1, TakesOne, WidgetOK
<1> QED
  BY <1>1, <1>2 DEF Found, EntriesInv

LEMMA EntriesStep ==
    ASSUME BusInv, EntriesInv, RowsInv, [Next]_vars
    PROVE  EntriesInv'
<1>1. CASE UNCHANGED <<items, counts, replaced, mistaken, misled>>
  BY <1>1 DEF EntriesInv, items
<1>2. CASE addFile
  <2>1. /\ files' = [files EXCEPT ![Id[Subject]] = Subject] /\ UNCHANGED received
        /\ rows' = AddedRows
    BY <1>2 DEF addFile
  <2>2. rows'["all"] = rows["all"] \cup {Subject}
    BY <2>1 DEF RowsInv, Boxes, Own, AddedRows
  <2> QED
    BY <1>2, <2>1, <2>2, AtBegin DEF EntriesInv, Untouched
<1>3. CASE updateBytes
  BY <1>3 DEF updateBytes, EntriesInv
<1>4. CASE fileEnded
  <2>1. /\ files' = [files EXCEPT ![Id[Subject]] = None] /\ rows' = MovedRows
        /\ UNCHANGED received \/ received' = [received EXCEPT ![Id[Found]] = Found]
    BY <1>4 DEF fileEnded, Erased
  <2>2. rows'["all"] = rows["all"] \ {Found}
    BY <2>1 DEF MovedRows, Without, Boxes
  <2>3. ASSUME NEW id \in Ids, files'[id] # None
        PROVE  Id[files'[id]] = id /\ files'[id] \in rows'["all"]
    <3>1. id # Id[Subject] /\ files'[id] = files[id]
      BY <1>4, <2>1, <2>3, AtEnd DEF EntriesInv
    <3>2. Id[files[id]] = id
      BY <2>3, <3>1 DEF EntriesInv
    <3> QED
      BY <1>4, <2>2, <2>3, <3>1, <3>2, AtEnd DEF EntriesInv
  <2>4. ASSUME NEW id \in Ids, received'[id] # None
        PROVE  Id[received'[id]] = id /\ received'[id] \notin rows'["all"]
    BY <1>4, <2>1, <2>2, <2>4, AtEnd DEF EntriesInv
  <2> QED
    BY <1>4, <2>1, <2>3, <2>4, AtEnd DEF EntriesInv
<1>5. ASSUME NEW t \in Transfers, removeFile(t) PROVE EntriesInv'
  <2>1. Id[t] \in Ids /\ Clicked(t) # None /\ rows'["all"] = rows["all"] \ {Clicked(t)}
    BY <1>5, WidgetOK DEF removeFile, Boxes
  <2>2. CASE files[Id[t]] # None
    <3>1. files' = [files EXCEPT ![Id[t]] = None] /\ UNCHANGED received /\ Clicked(t) = files[Id[t]]
      BY <1>5, <2>2 DEF removeFile, Clicked, Erased
    <3>2. \A id \in Ids \ {Id[t]} : files[id] # Clicked(t) \/ files[id] = None
      BY <2>1, <2>2, <3>1 DEF EntriesInv
    <3> QED
      BY <2>1, <3>1, <3>2 DEF EntriesInv
  <2>3. CASE files[Id[t]] = None
    <3>1. received' = [received EXCEPT ![Id[t]] = None] /\ UNCHANGED files /\ Clicked(t) = received[Id[t]]
      BY <1>5, <2>3 DEF removeFile, Clicked, Erased
    <3>2. Clicked(t) \notin rows["all"]
      BY <2>1, <3>1 DEF EntriesInv
    <3> QED
      BY <2>1, <3>1, <3>2 DEF EntriesInv
  <2> QED
    BY <2>2, <2>3
<1> QED
  BY <1>1, <1>2, <1>3, <1>4, <1>5, Elsewhere

LEMMA RowsStep ==
    ASSUME BusInv, EntriesInv, RowsInv, [Next]_vars
    PROVE  RowsInv'
<1>1. CASE UNCHANGED <<items, counts, replaced, mistaken, misled>>
  BY <1>1 DEF RowsInv, items
<1>2. CASE addFile
  <2>1. /\ rows' = AddedRows
        /\ status' = [status EXCEPT ![Subject] = Begun(Subject)] /\ UNCHANGED mistaken
    BY <1>2 DEF addFile
  <2>2. Subject \in Transfers /\ Subject \notin mistaken /\ Begun(Subject) \in {1, 4}
    BY <1>2, AtBegin DEF Untouched, Begun
  <2>3. rows' \in [Boxes -> SUBSET Transfers] /\ rows'["recved"] = rows["recved"]
    BY <2>1, <2>2 DEF RowsInv, Boxes, Own, AddedRows
  <2>4. /\ rows'["all"] = rows["all"] \cup {Subject}
        /\ rows'["send"] = IF Subject \in Uploads THEN rows["send"] \cup {Subject} ELSE rows["send"]
        /\ rows'["recv"] = IF Subject \in Uploads THEN rows["recv"] ELSE rows["recv"] \cup {Subject}
    BY <2>1 DEF RowsInv, Boxes, Own, AddedRows
  <2>5. ASSUME NEW b \in Boxes, NEW u \in rows'[b] PROVE status'[u] # 0
    <3>1. u \in rows[b] \/ u = Subject
      BY <2>3, <2>4, <2>5 DEF Boxes
    <3> QED
      BY <2>1, <2>2, <3>1 DEF RowsInv
  <2>6. status' \in [Transfers -> {0, 1, 3, 4, 6, 7}]
    BY <2>1, <2>2 DEF RowsInv
  <2>7. rows["all"] = rows["send"] \cup rows["recv"] /\ rows["send"] \subseteq Uploads /\ rows["recv"] \cap Uploads = {}
    BY DEF RowsInv
  <2>8. rows'["all"] = rows'["send"] \cup rows'["recv"]
    BY <2>4, <2>7
  <2>9. mistaken' \subseteq Transfers \ rows'["all"]
    BY <2>1, <2>2, <2>4 DEF RowsInv
  <2> QED
    BY <2>3, <2>4, <2>5, <2>6, <2>7, <2>8, <2>9 DEF RowsInv
<1>3. CASE updateBytes
  <2>1. /\ status' = [status EXCEPT ![Found] = Moving(Found)] /\ UNCHANGED <<rows, mistaken>>
        /\ Moving(Found) \in {3, 4}
    BY <1>3 DEF updateBytes, history, Moving
  <2>2. status' \in [Transfers -> {0, 1, 3, 4, 6, 7}]
    BY <2>1 DEF RowsInv
  <2>3. ASSUME NEW b \in Boxes, NEW u \in rows[b] PROVE status'[u] # 0
    <3>1. u \in Transfers /\ status[u] # 0
      BY <2>3 DEF RowsInv
    <3> QED
      BY <2>1, <3>1 DEF RowsInv
  <2> QED
    BY <2>1, <2>2, <2>3 DEF RowsInv
<1>4. CASE fileEnded
  <2>1. /\ rows' = MovedRows /\ UNCHANGED mistaken
        /\ \E s \in {6, 7} : status' = [status EXCEPT ![Found] = s]
    BY <1>4 DEF fileEnded
  <2>2. Found \in Transfers /\ Found \in rows["all"]
    BY <1>4, AtEnd
  <2>3. /\ rows'["all"] = rows["all"] \ {Found}
        /\ rows'["send"] = IF Found \in Uploads THEN rows["send"] \ {Found} ELSE rows["send"]
        /\ rows'["recv"] = IF Found \in Uploads THEN rows["recv"] ELSE rows["recv"] \ {Found}
        /\ rows'["recved"] \in {rows["recved"], rows["recved"] \cup {Found}}
        /\ DOMAIN rows' = Boxes /\ rows' = [b \in Boxes |-> rows'[b]]
    BY <2>1 DEF MovedRows, Without, Boxes, Own
  <2>4. rows' \in [Boxes -> SUBSET Transfers]
    BY <2>2, <2>3 DEF RowsInv, Boxes
  <2>5. ASSUME NEW b \in Boxes, NEW u \in rows'[b] PROVE status'[u] # 0
    <3>1. u \in rows[b] \/ u = Found
      BY <2>3, <2>5 DEF Boxes
    <3> QED
      BY <2>1, <2>2, <3>1 DEF RowsInv
  <2>6. status' \in [Transfers -> {0, 1, 3, 4, 6, 7}]
    BY <2>1 DEF RowsInv
  <2>7. rows["all"] = rows["send"] \cup rows["recv"] /\ rows["send"] \subseteq Uploads /\ rows["recv"] \cap Uploads = {}
    BY DEF RowsInv
  <2>8. rows'["all"] = rows'["send"] \cup rows'["recv"]
    BY <2>3, <2>7
  <2> QED
    BY <2>1, <2>3, <2>4, <2>5, <2>6, <2>7, <2>8 DEF RowsInv
<1>5. ASSUME NEW t \in Transfers, removeFile(t) PROVE RowsInv'
  <2>1. /\ rows' = [b \in Boxes |-> rows[b] \ {Clicked(t)}]
        /\ status' = [status EXCEPT ![Clicked(t)] = 0]
        /\ mistaken' \in {mistaken, mistaken \cup {Clicked(t)}}
    BY <1>5 DEF removeFile
  <2>2. Clicked(t) \in Transfers
    BY <1>5, WidgetOK DEF removeFile, Clicked, EntriesInv
  <2>3. /\ rows'["all"] = rows["all"] \ {Clicked(t)} /\ rows'["send"] = rows["send"] \ {Clicked(t)}
        /\ rows'["recv"] = rows["recv"] \ {Clicked(t)}
    BY <2>1 DEF Boxes
  <2>4. rows' \in [Boxes -> SUBSET Transfers] /\ status' \in [Transfers -> {0, 1, 3, 4, 6, 7}]
    BY <2>1 DEF RowsInv
  <2>5. ASSUME NEW b \in Boxes, NEW u \in rows'[b] PROVE status'[u] # 0
    BY <2>1, <2>5 DEF RowsInv
  <2>6. mistaken' \subseteq Transfers \ rows'["all"]
    BY <2>1, <2>2, <2>3 DEF RowsInv
  <2> QED
    BY <2>3, <2>4, <2>5, <2>6 DEF RowsInv
<1> QED
  BY <1>1, <1>2, <1>3, <1>4, <1>5, Elsewhere

\* The counts go with the rows: nothing is counted twice, or not at all.
LEMMA CountStep ==
    ASSUME BusInv, EntriesInv, RowsInv, CountInv, [Next]_vars
    PROVE  CountInv'
<1>0. \A S \in SUBSET Transfers : IsFiniteSet(S) /\ Cardinality(S) \in Nat
  BY WidgetOK, FS_Subset, FS_CardinalityType
<1>f. /\ rows["send"] \in SUBSET Transfers /\ rows["recv"] \in SUBSET Transfers
      /\ mistaken \cap Uploads \in SUBSET Transfers /\ mistaken \ Uploads \in SUBSET Transfers
  BY DEF RowsInv, Boxes
<1>1. CASE UNCHANGED <<items, counts, replaced, mistaken, misled>>
  BY <1>1 DEF CountInv, items, counts
<1>2. CASE addFile
  <2>1. /\ rows' = AddedRows
        /\ UNCHANGED mistaken
    BY <1>2 DEF addFile
  <2>2. /\ rows'["send"] = IF Subject \in Uploads THEN rows["send"] \cup {Subject} ELSE rows["send"]
        /\ rows'["recv"] = IF Subject \in Uploads THEN rows["recv"] ELSE rows["recv"] \cup {Subject}
    BY <2>1 DEF RowsInv, Boxes, Own, AddedRows
  <2>3. Subject \notin rows["send"] /\ Subject \notin rows["recv"]
    BY <1>2, AtBegin DEF Untouched, Boxes
  <2>4. CASE Subject \in Uploads
    <3>1. Cardinality(rows'["send"]) = Cardinality(rows["send"]) + 1 /\ rows'["recv"] = rows["recv"]
      BY <1>0, <1>f, <2>2, <2>3, <2>4, FS_AddElement
    <3>2. sendFileCount' = sendFileCount + 1 /\ UNCHANGED recvFileCount
      BY <1>2, <2>4 DEF addFile
    <3> QED
      BY <1>0, <1>f, <2>1, <3>1, <3>2 DEF CountInv
  <2>5. CASE Subject \notin Uploads
    <3>1. Cardinality(rows'["recv"]) = Cardinality(rows["recv"]) + 1 /\ rows'["send"] = rows["send"]
      BY <1>0, <1>f, <2>2, <2>3, <2>5, FS_AddElement
    <3>2. recvFileCount' = recvFileCount + 1 /\ UNCHANGED sendFileCount
      BY <1>2, <2>5 DEF addFile
    <3> QED
      BY <1>0, <1>f, <2>1, <3>1, <3>2 DEF CountInv
  <2> QED
    BY <2>4, <2>5
<1>3. CASE updateBytes
  BY <1>3 DEF updateBytes, CountInv, counts, history
<1>4. CASE fileEnded
  <2>1. rows' = MovedRows /\ UNCHANGED mistaken
    BY <1>4 DEF fileEnded
  <2>2. /\ rows'["send"] = IF Found \in Uploads THEN rows["send"] \ {Found} ELSE rows["send"]
        /\ rows'["recv"] = IF Found \in Uploads THEN rows["recv"] ELSE rows["recv"] \ {Found}
    BY <2>1 DEF MovedRows, Without, Boxes, Own
  <2>3. Found \in rows[IF Found \in Uploads THEN "send" ELSE "recv"]
    BY <1>4, AtEnd DEF RowsInv
  <2>4. CASE Found \in Uploads
    <3>1. Cardinality(rows'["send"]) = Cardinality(rows["send"]) - 1 /\ rows'["recv"] = rows["recv"]
      BY <1>0, <1>f, <2>2, <2>3, <2>4, FS_RemoveElement
    <3>2. sendFileCount' = sendFileCount - 1 /\ UNCHANGED recvFileCount
      BY <1>4, <2>4 DEF fileEnded
    <3> QED
      BY <1>0, <1>f, <2>1, <3>1, <3>2 DEF CountInv
  <2>5. CASE Found \notin Uploads
    <3>1. Cardinality(rows'["recv"]) = Cardinality(rows["recv"]) - 1 /\ rows'["send"] = rows["send"]
      BY <1>0, <1>f, <2>2, <2>3, <2>5, FS_RemoveElement
    <3>2. recvFileCount' = recvFileCount - 1 /\ UNCHANGED sendFileCount
      BY <1>4, <2>5 DEF fileEnded
    <3> QED
      BY <1>0, <1>f, <2>1, <3>1, <3>2 DEF CountInv
  <2> QED
    BY <2>4, <2>5
<1>5. ASSUME NEW t \in Transfers, removeFile(t) PROVE CountInv'
  <2>0. Id[t] \in Ids
    BY WidgetOK
  <2> DEFINE hit == Clicked(t)
  <2>1. /\ rows'["send"] = rows["send"] \ {hit} /\ rows'["recv"] = rows["recv"] \ {hit}
        /\ UNCHANGED counts /\ hit # None
    BY <1>5 DEF removeFile, Boxes
  <2>2. CASE files[Id[t]] # None
    <3>1. hit \in rows["all"] /\ mistaken' = mistaken \cup {hit} /\ hit \notin mistaken /\ hit \in Transfers
      BY <1>5, <2>0, <2>1, <2>2 DEF removeFile, Clicked, EntriesInv, RowsInv
    <3> HIDE DEF hit
    <3>2. CASE hit \in Uploads
      <4>1. hit \in rows["send"] /\ rows'["recv"] = rows["recv"]
        BY <2>1, <3>1, <3>2 DEF RowsInv
      <4>2. Cardinality(rows'["send"]) = Cardinality(rows["send"]) - 1
        BY <1>0, <1>f, <2>1, <4>1, FS_RemoveElement
      <4>3. mistaken' \ Uploads = mistaken \ Uploads /\ mistaken' \cap Uploads = (mistaken \cap Uploads) \cup {hit}
        BY <3>1, <3>2
      <4>4. Cardinality(mistaken' \cap Uploads) = Cardinality(mistaken \cap Uploads) + 1
        BY <1>0, <1>f, <3>1, <4>3, FS_AddElement
      <4>5. sendFileCount' = Cardinality(rows'["send"]) + Cardinality(mistaken' \cap Uploads)
        BY <1>0, <1>f, <2>1, <4>2, <4>4 DEF CountInv, counts
      <4>6. recvFileCount' = Cardinality(rows'["recv"]) + Cardinality(mistaken' \ Uploads)
        BY <2>1, <4>1, <4>3 DEF CountInv, counts
      <4> QED
        BY <4>5, <4>6 DEF CountInv
    <3>3. CASE hit \notin Uploads
      <4>1. hit \in rows["recv"] /\ rows'["send"] = rows["send"]
        BY <2>1, <3>1, <3>3 DEF RowsInv
      <4>2. Cardinality(rows'["recv"]) = Cardinality(rows["recv"]) - 1
        BY <1>0, <1>f, <2>1, <4>1, FS_RemoveElement
      <4>3. mistaken' \cap Uploads = mistaken \cap Uploads /\ mistaken' \ Uploads = (mistaken \ Uploads) \cup {hit}
        BY <3>1, <3>3
      <4>4. Cardinality(mistaken' \ Uploads) = Cardinality(mistaken \ Uploads) + 1
        BY <1>0, <1>f, <3>1, <4>3, FS_AddElement
      <4>5. recvFileCount' = Cardinality(rows'["recv"]) + Cardinality(mistaken' \ Uploads)
        BY <1>0, <1>f, <2>1, <4>2, <4>4 DEF CountInv, counts
      <4>6. sendFileCount' = Cardinality(rows'["send"]) + Cardinality(mistaken' \cap Uploads)
        BY <2>1, <4>1, <4>3 DEF CountInv, counts
      <4> QED
        BY <4>5, <4>6 DEF CountInv
    <3> QED
      BY <3>2, <3>3
  <2>3. CASE files[Id[t]] = None
    <3>1. hit \notin rows["all"] /\ UNCHANGED mistaken
      BY <1>5, <2>0, <2>1, <2>3 DEF removeFile, Clicked, EntriesInv
    <3>2. rows'["send"] = rows["send"] /\ rows'["recv"] = rows["recv"]
      BY <2>1, <3>1 DEF RowsInv
    <3> QED
      BY <2>1, <3>1, <3>2 DEF CountInv, counts
  <2> QED
    BY <2>2, <2>3
<1> QED
  BY <1>1, <1>2, <1>3, <1>4, <1>5, Elsewhere

LEMMA ClosedStep ==
    ASSUME ClosedInv, [Next]_vars
    PROVE  ClosedInv'
<1>1. CASE \/ UNCHANGED vars \/ timer \/ timerBlinks
           \/ \E t \in Transfers : OnBegin(t) \/ OnUpdate(t) \/ OnEnd(t) \/ Killed(t)
  BY <1>1 DEF vars, timer, timerBlinks, OnBegin, OnUpdate, OnEnd, Killed, ClosedInv, items
<1>2. CASE Open
  BY <1>2 DEF Open, ClosedInv
<1>3. CASE Handle \/ crash \/ \E t \in Transfers : removeFile(t)
  <2>1. widget = "open" /\ (UNCHANGED widget \/ widget' \in {"crashed", "corrupt"})
    BY <1>3 DEF Handle, addFile, updateBytes, fileEnded, unknownFile, Signal, crash, removeFile
  <2> QED
    BY <2>1 DEF ClosedInv
<1> QED
  BY <1>1, <1>2, <1>3 DEF Next

\* Rows go with their entries, and with the ends of their transfers.
LEMMA FollowSends ==
    ASSUME BusInv, FollowInv, NEW t \in Transfers, OnBegin(t) \/ OnUpdate(t) \/ OnEnd(t) \/ Killed(t)
    PROVE  FollowInv'
<1>1. UNCHANGED <<widget, items, replaced, mistaken>>
  BY DEF OnBegin, OnUpdate, OnEnd, Killed, history
<1>2. ASSUME NEW u \in Transfers, widget = "open", phase'[u] = "ended",
             phase[u] = "ended" => EndComes(u)
      PROVE  EndComes(u)'
  <2>1. ASSUME NEW kind \in Kinds, Emit(kind, t), u # t \/ kind \in {"ended", "failed"}
        PROVE  EndComes(u)'
    <3>1. /\ Len(bus) \in Nat /\ Len(bus') = Len(bus) + 1 /\ bus'[Len(bus) + 1] = [kind |-> kind, of |-> t]
          /\ \A n \in Positions : bus'[n] = bus[n]
      BY <1>2, <2>1, SendsOne, SignalTypes
    <3>2. Len(bus) + 1 \in Positions' /\ Positions \subseteq Positions'
      BY <3>1 DEF Positions
    <3>3. CASE u = t
      BY <2>1, <3>1, <3>2, <3>3 DEF EndComes
    <3>4. CASE EndComes(u)
      BY <3>1, <3>2, <3>4 DEF EndComes
    <3>5. u # t => phase[u] = "ended"
      BY <1>2 DEF OnBegin, OnUpdate, OnEnd, Killed, BusInv
    <3> QED
      BY <1>2, <3>3, <3>4, <3>5
  <2>2. CASE OnBegin(t)
    BY <1>2, <2>1, <2>2 DEF OnBegin, BusInv, Kinds
  <2>3. CASE OnUpdate(t)
    BY <1>2, <2>1, <2>3 DEF OnUpdate, BusInv, Kinds
  <2>4. CASE OnEnd(t)
    BY <1>2, <2>1, <2>4 DEF OnEnd, Kinds
  <2>5. CASE Killed(t)
    BY <1>2, <2>5 DEF Killed, BusInv, EndComes, Positions
  <2> QED
    BY <2>2, <2>3, <2>4, <2>5
<1> QED
  BY <1>1, <1>2 DEF FollowInv, items

LEMMA FollowHandles ==
    ASSUME BusInv, EntriesInv, RowsInv, FollowInv, Handle
    PROVE  FollowInv'
<1>2. ASSUME bus # <<>>, bus' = Tail(bus), UNCHANGED phase,
             NEW u \in Transfers \ (replaced \cup mistaken), u \in rows["all"], widget = "open",
             phase[u] = "ended", ~EndComes(u)'
      PROVE  u = Subject /\ Found = u /\ Head(bus).kind \in {"ended", "failed"}
  BY <1>2, TakesInOrder DEF FollowInv, Found
<1>3. CASE addFile
  <2>1. /\ files' = [files EXCEPT ![Id[Subject]] = Subject] /\ UNCHANGED <<received, mistaken, widget, phase>>
        /\ replaced' = IF Found = None THEN replaced ELSE replaced \cup {Found}
        /\ rows' = AddedRows
        /\ bus # <<>> /\ bus' = Tail(bus) /\ Head(bus).kind = "onBegin" /\ widget = "open"
    BY <1>3 DEF addFile, Taken, Signal
  <2>2. rows'["all"] = rows["all"] \cup {Subject} /\ rows'["recved"] = rows["recved"]
    BY <2>1 DEF RowsInv, Boxes, Own, AddedRows
  <2>3. Subject \in Transfers /\ Id[Subject] \in Ids
    BY <1>3, AtBegin
  <2>4. ASSUME NEW u \in Transfers \ (replaced' \cup mistaken')
        PROVE  /\ u \in rows'["all"] => files'[Id[u]] = u
               /\ u \in rows'["all"] /\ widget' = "open" /\ phase'[u] = "ended" => EndComes(u)'
               /\ u \in rows'["recved"] => received'[Id[u]] = u
    <3>1. u \notin replaced \cup mistaken /\ Id[u] \in Ids /\ u # None
      BY <2>1, <2>4, WidgetOK
    <3>2. u \in rows'["all"] => files'[Id[u]] = u
      BY <2>1, <2>2, <2>3, <2>4, <3>1 DEF FollowInv, Found, EntriesInv
    <3>3. u \in rows'["all"] /\ phase'[u] = "ended" => EndComes(u)'
      <4>1. CASE u = Subject
        <5>1. BeginComes(u) /\ Subject = bus[1].of
          <6>1. Subject = bus[1].of /\ bus[1].kind = "onBegin" /\ 1 \in Positions
            BY <2>1, TakesOne DEF Positions
          <6> QED
            BY <4>1, <6>1 DEF BeginComes
        <5> QED
          BY <2>1, <5>1, TakesInOrder DEF BusInv
      <4>2. CASE u # Subject
        BY <1>2, <2>1, <2>2, <3>1, <4>2
      <4> QED
        BY <4>1, <4>2
    <3>4. u \in rows'["recved"] => received'[Id[u]] = u
      BY <2>1, <2>2, <3>1 DEF FollowInv
    <3> QED
      BY <3>2, <3>3, <3>4
  <2> QED
    BY <2>4 DEF FollowInv
<1>4. CASE updateBytes \/ unknownFile
  <2>1. /\ UNCHANGED <<files, received, rows, replaced, mistaken, phase, widget>>
        /\ bus # <<>> /\ bus' = Tail(bus) /\ widget = "open"
        /\ Found = None \/ Head(bus).kind = "onUpdate"
    BY <1>4 DEF updateBytes, unknownFile, Taken, Signal, items, history
  <2> QED
    BY <1>2, <2>1, WidgetOK DEF FollowInv
<1>5. CASE fileEnded
  <2>1. /\ files' = [files EXCEPT ![Id[Subject]] = None] /\ rows' = MovedRows
        /\ UNCHANGED <<mistaken, widget, phase>> /\ widget = "open" /\ bus # <<>> /\ bus' = Tail(bus)
        /\ IF Found \in Uploads THEN UNCHANGED <<received, replaced>>
           ELSE /\ received' = [received EXCEPT ![Id[Found]] = Found]
                /\ replaced' = replaced \cup ({received[Id[Found]]} \ {None})
    BY <1>5 DEF fileEnded, Taken, Signal, Erased
  <2>2. /\ rows'["all"] = rows["all"] \ {Found}
        /\ rows'["recved"] = IF Found \in Uploads THEN rows["recved"] ELSE rows["recved"] \cup {Found}
    BY <2>1 DEF MovedRows, Without, Boxes, Own
  <2>3. ASSUME NEW u \in Transfers \ (replaced' \cup mistaken')
        PROVE  /\ u \in rows'["all"] => files'[Id[u]] = u
               /\ u \in rows'["all"] /\ widget' = "open" /\ phase'[u] = "ended" => EndComes(u)'
               /\ u \in rows'["recved"] => received'[Id[u]] = u
    <3>1. u \notin replaced \cup mistaken /\ Id[u] \in Ids /\ u # None
      BY <2>1, <2>3, WidgetOK
    <3>2. u \in rows'["all"] => files'[Id[u]] = u
      BY <1>5, <2>1, <2>2, <3>1, AtEnd DEF FollowInv, Found, EntriesInv
    <3>3. u \in rows'["all"] /\ phase'[u] = "ended" => EndComes(u)'
      BY <1>2, <2>1, <2>2, <3>1
    <3>4. u \in rows'["recved"] => received'[Id[u]] = u
      BY <1>5, <2>1, <2>2, <2>3, <3>1, AtEnd DEF FollowInv, EntriesInv
    <3> QED
      BY <3>2, <3>3, <3>4
  <2> QED
    BY <2>3 DEF FollowInv
<1> QED
  BY <1>3, <1>4, <1>5 DEF Handle

LEMMA FollowStep ==
    ASSUME BusInv, EntriesInv, RowsInv, FollowInv, ClosedInv, [Next]_vars
    PROVE  FollowInv'
<1>1. CASE UNCHANGED vars \/ timer \/ timerBlinks
  BY <1>1 DEF vars, transfers, items, history, timer, timerBlinks, FollowInv, EndComes, Positions
<1>2. CASE Open
  <2>1. rows["all"] = {}
    BY <1>2 DEF Open, ClosedInv
  <2> QED
    BY <1>2, <2>1 DEF Open, transfers, items, history, FollowInv
<1>3. CASE Handle
  BY <1>3, FollowHandles
<1>4. ASSUME NEW t \in Transfers, OnBegin(t) \/ OnUpdate(t) \/ OnEnd(t) \/ Killed(t) PROVE FollowInv'
  BY <1>4, FollowSends
<1>5. ASSUME NEW t \in Transfers, removeFile(t) PROVE FollowInv'
  <2>1. /\ rows'["all"] = rows["all"] \ {Clicked(t)} /\ rows'["recved"] = rows["recved"] \ {Clicked(t)}
        /\ UNCHANGED <<transfers, widget, replaced>> /\ Id[t] \in Ids
        /\ IF files[Id[t]] # None
           THEN /\ files' = [files EXCEPT ![Id[t]] = None] /\ Clicked(t) = files[Id[t]]
                /\ mistaken' = mistaken \cup {Clicked(t)} /\ UNCHANGED received
           ELSE /\ received' = [received EXCEPT ![Id[t]] = None] /\ Clicked(t) = received[Id[t]]
                /\ UNCHANGED <<files, mistaken>>
    BY <1>5, WidgetOK DEF removeFile, Boxes, Clicked, Erased
  <2>2. ASSUME NEW u \in Transfers \ (replaced' \cup mistaken')
        PROVE  /\ u \in rows'["all"] => files'[Id[u]] = u
               /\ u \in rows'["all"] /\ widget' = "open" /\ phase'[u] = "ended" => EndComes(u)'
               /\ u \in rows'["recved"] => received'[Id[u]] = u
    <3>1. u \notin replaced \cup mistaken /\ Id[u] \in Ids /\ u # None
      BY <2>1, <2>2, WidgetOK
    <3>2. EndComes(u)' <=> EndComes(u)
      BY <2>1 DEF transfers, EndComes, Positions
    <3>3. CASE files[Id[t]] # None
      BY <2>1, <3>1, <3>2, <3>3 DEF FollowInv, EntriesInv, transfers
    <3>4. CASE files[Id[t]] = None
      BY <2>1, <3>1, <3>2, <3>4 DEF FollowInv, EntriesInv, transfers
    <3> QED
      BY <3>3, <3>4
  <2> QED
    BY <2>2 DEF FollowInv
<1>6. CASE crash
  BY <1>6, CrashKeeps DEF FollowInv, items, history
<1> QED
  BY <1>1, <1>2, <1>3, <1>4, <1>5, <1>6 DEF Next

\* Whatever the handler leaves in the counts, the icon is drawn from that.
LEMMA IconStep ==
    ASSUME IconInv, [Next]_vars
    PROVE  IconInv'
<1>1. CASE UNCHANGED <<widget, counts, tray>>
  BY <1>1 DEF IconInv, IconFollows, counts, tray
<1>2. CASE Open
  BY <1>2, WidgetOK DEF Open, IconInv
<1>3. ASSUME statusChanged, widget = "open", UNCHANGED widget PROVE IconInv'
  BY <1>3 DEF statusChanged, Picture, IconInv, IconFollows
<1>4. CASE addFile \/ updateBytes \/ fileEnded
  <2>1. statusChanged /\ widget = "open" /\ UNCHANGED widget
    BY <1>4 DEF addFile, updateBytes, fileEnded, Signal
  <2> QED
    BY <1>3, <2>1
<1>5. CASE crash
  <2>1. UNCHANGED <<counts, tray>> /\ widget' # "closed"
    BY <1>5, CrashKeeps
  <2> QED
    BY <2>1 DEF IconInv, IconFollows, counts, tray
<1>6. CASE timer
  <2>1. /\ icon' = Ticks /\ cnt' = cnt + 1
        /\ UNCHANGED <<widget, sendFileCount, recvFileCount, animating, animem, told>>
    BY <1>6 DEF timer, counts
  <2> QED
    BY <2>1 DEF IconInv, IconFollows, Ticks
<1>7. CASE timerBlinks
  <2>1. cnt' = 0 /\ UNCHANGED <<widget, sendFileCount, recvFileCount, animem, told>>
    BY <1>7 DEF timerBlinks, counts
  <2>2. CASE excmark
    <3>1. /\ animating' = IF recvFileCount > 0 \/ sendFileCount > 0
                          THEN (recvFileCount > 0) # (sendFileCount > 0) ELSE animating
          /\ icon' = CASE recvFileCount > 0 /\ sendFileCount > 0        -> "uploaddownload"
                       [] (recvFileCount > 0) # (sendFileCount > 0) -> "dlAnim"
                       [] OTHER                                     -> Ticks
      BY <1>7, <2>2 DEF timerBlinks
    <3>2. CASE recvFileCount > 0 <=> sendFileCount > 0
      <4>1. /\ animating' \in BOOLEAN /\ (told => ~animating')
            /\ told => icon' = icon \/ (icon' = "uploaddownload" /\ recvFileCount > 0)
        BY <3>1, <3>2 DEF IconInv, Ticks
      <4>2. told => ~animating /\ icon \in {"main", "uploaddownload"}
        BY <3>2 DEF IconInv, IconFollows
      <4> QED
        BY <2>1, <3>2, <4>1, <4>2 DEF IconInv, IconFollows
    <3>3. CASE ~(recvFileCount > 0 <=> sendFileCount > 0)
      <4>1. animating' = TRUE /\ icon' = "dlAnim"
        BY <3>1, <3>3
      <4> QED
        BY <2>1, <3>3, <4>1 DEF IconInv, IconFollows
    <3> QED
      BY <3>2, <3>3
  <2>3. CASE ~excmark
    <3>1. icon' = (IF animem THEN "exclamation" ELSE Ticks) /\ UNCHANGED animating
      BY <1>7, <2>3 DEF timerBlinks
    <3> QED
      BY <2>1, <3>1 DEF IconInv, IconFollows, Ticks
  <2> QED
    BY <2>2, <2>3
<1>8. CASE unknownFile \/ \E t \in Transfers : OnBegin(t) \/ OnUpdate(t) \/ OnEnd(t) \/ Killed(t) \/ removeFile(t)
  <2>1. UNCHANGED <<widget, counts, tray>>
    BY <1>8 DEF unknownFile, OnBegin, OnUpdate, OnEnd, Killed, removeFile
  <2> QED
    BY <1>1, <2>1
<1> QED
  BY <1>1, <1>2, <1>4, <1>5, <1>6, <1>7, <1>8 DEF Next, Handle, vars

\* Taking a signal brings no new one, and takes no other.
LEMMA TakesBegin ==
    ASSUME BusInv, bus # <<>>, bus' = Tail(bus), NEW t \in Transfers
    PROVE  /\ BeginComes(t)' => BeginComes(t)
           /\ EndComes(t)' => EndComes(t)
           /\ BeginComes(t) => BeginComes(t)' \/ (t = Subject /\ Head(bus).kind = "onBegin")
<1>1. /\ Len(bus) \in Nat \ {0} /\ Len(bus') = Len(bus) - 1
      /\ \A n \in 1..Len(bus') : bus'[n] = bus[n + 1]
      /\ Subject = bus[1].of /\ Head(bus) = bus[1]
  BY TakesOne DEF BusInv
<1>2. \A n \in Positions' : n + 1 \in Positions /\ bus'[n] = bus[n + 1]
  BY <1>1 DEF Positions
<1>3. ASSUME BeginComes(t) PROVE BeginComes(t)' \/ (t = Subject /\ Head(bus).kind = "onBegin")
  <2>1. PICK n \in Positions : bus[n].kind = "onBegin" /\ bus[n].of = t
    BY <1>3 DEF BeginComes
  <2>2. CASE n = 1
    BY <1>1, <2>1, <2>2
  <2>3. CASE n # 1
    <3>1. n - 1 \in Positions' /\ bus'[n - 1] = bus[n]
      BY <1>1, <2>3 DEF Positions
    <3> QED
      BY <2>1, <3>1 DEF BeginComes
  <2> QED
    BY <2>2, <2>3
<1> QED
  BY <1>2, <1>3 DEF BeginComes, EndComes

\* What a transfer's own step sends is of that transfer.
LEMMA SendsBegin ==
    ASSUME BusInv, NEW t \in Transfers, OnBegin(t) \/ OnUpdate(t) \/ OnEnd(t) \/ Killed(t),
           NEW u \in Transfers
    PROVE  /\ BeginComes(u)' => BeginComes(u) \/ (u = t /\ phase[t] = "new" /\ widget = "open")
           /\ BeginComes(u) => BeginComes(u)'
           /\ EndComes(u)' /\ u # t => EndComes(u)
           /\ phase[t] = "new" /\ widget = "open" => BeginComes(t)'
<1>1. ASSUME UNCHANGED bus, phase[t] # "new" \/ widget # "open"
      PROVE  /\ BeginComes(u)' <=> BeginComes(u)
             /\ EndComes(u)' <=> EndComes(u)
             /\ ~(phase[t] = "new" /\ widget = "open")
  BY <1>1 DEF BeginComes, EndComes, Positions
<1>2. ASSUME NEW kind \in Kinds, Emit(kind, t), widget = "open",
             kind = "onBegin" <=> phase[t] = "new"
      PROVE  /\ BeginComes(u)' => BeginComes(u) \/ (u = t /\ phase[t] = "new" /\ widget = "open")
             /\ BeginComes(u) => BeginComes(u)'
             /\ EndComes(u)' /\ u # t => EndComes(u)
             /\ phase[t] = "new" /\ widget = "open" => BeginComes(t)'
  <2>1. /\ Len(bus) \in Nat /\ Len(bus') = Len(bus) + 1 /\ bus'[Len(bus) + 1] = [kind |-> kind, of |-> t]
        /\ \A n \in Positions : bus'[n] = bus[n]
    BY <1>2, SendsOne, SignalTypes
  <2>2. Positions' = Positions \cup {Len(bus) + 1}
    BY <2>1 DEF Positions
  <2>3. bus'[Len(bus) + 1].kind = kind /\ bus'[Len(bus) + 1].of = t
    BY <2>1
  <2> QED
    BY <1>2, <2>1, <2>2, <2>3 DEF BeginComes, EndComes
<1>3. CASE widget # "open" /\ ~Killed(t)
  <2>1. UNCHANGED bus
    BY <1>3 DEF OnBegin, OnUpdate, OnEnd, Emit
  <2> QED
    BY <1>1, <1>3, <2>1
<1>4. CASE Killed(t)
  BY <1>1, <1>4 DEF Killed
<1>5. CASE widget = "open" /\ ~Killed(t)
  <2>1. \/ phase[t] = "new" /\ Emit("onBegin", t)
        \/ phase[t] = "begun" /\ \E kind \in Kinds \ {"onBegin"} : Emit(kind, t)
    BY <1>5 DEF OnBegin, OnUpdate, OnEnd, Kinds
  <2> QED
    BY <1>2, <1>5, <2>1 DEF Kinds
<1> QED
  BY <1>3, <1>4, <1>5

\* What was missed stays unknown.
LEMMA MissedStep ==
    ASSUME BusInv, MissedInv, RowsInv, EntriesInv, [Next]_vars
    PROVE  MissedInv'
<1>1. CASE UNCHANGED vars \/ timer \/ timerBlinks
  BY <1>1 DEF vars, transfers, items, history, timer, timerBlinks, MissedInv, Positions, BeginComes,
              Untouched
<1>2. CASE Open
  BY <1>2 DEF Open, transfers, items, history, MissedInv, Positions, BeginComes, Untouched
<1>3. CASE Handle
  <2>1. bus # <<>> /\ bus' = Tail(bus) /\ UNCHANGED <<phase, widget, missed>> /\ widget = "open"
    BY <1>3 DEF Handle, addFile, updateBytes, fileEnded, unknownFile, Signal, Taken, history
  <2>2. ASSUME NEW t \in missed PROVE ~BeginComes(t)' /\ Untouched(t)'
    <3>1. t \in Transfers /\ ~BeginComes(t) /\ Untouched(t)
      BY DEF MissedInv
    <3>2. ~BeginComes(t)'
      BY <2>1, <3>1, TakesBegin
    <3>3. addFile => t # Subject
      BY <3>1, AtBegin
    <3> QED
      BY <1>3, <3>1, <3>2, <3>3, HandlesElsewhere
  <2> QED
    BY <2>1, <2>2 DEF MissedInv
<1>4. ASSUME NEW t \in Transfers, OnBegin(t) \/ OnUpdate(t) \/ OnEnd(t) \/ Killed(t) PROVE MissedInv'
  <2>1. UNCHANGED <<widget, items, replaced, mistaken>>
    BY <1>4 DEF OnBegin, OnUpdate, OnEnd, Killed, history
  <2>2. /\ \A u \in Transfers : (Untouched(u)' <=> Untouched(u)) /\ (phase'[u] = "new" => phase[u] = "new")
        /\ phase[t] # "new" => UNCHANGED missed
        /\ phase[t] = "new" => phase'[t] = "begun" /\ OnBegin(t)
    BY <1>4, <2>1 DEF OnBegin, OnUpdate, OnEnd, Killed, history, items, Untouched, BusInv
  <2>3. ASSUME NEW u \in missed' PROVE u \in Transfers /\ phase'[u] # "new" /\ Untouched(u)'
    <3>1. u \in missed \/ (u = t /\ phase[t] = "new" /\ phase'[t] = "begun")
      BY <1>4, <2>2 DEF OnBegin
    <3> QED
      BY <2>2, <3>1 DEF MissedInv, BusInv
  <2>4. ASSUME NEW u \in missed' PROVE ~BeginComes(u)'
    <3>1. BeginComes(u)' => BeginComes(u) \/ (u = t /\ phase[t] = "new" /\ widget = "open")
      BY <1>4, <2>3, SendsBegin
    <3>2. BeginComes(u) => u \notin missed /\ phase[u] # "new"
      <4>1. BeginComes(u) => phase[u] # "new"
        BY DEF BeginComes, BusInv
      <4> QED BY <4>1 DEF MissedInv
    <3>3. u \in missed \/ (u = t /\ phase[t] = "new" /\ widget # "open")
      BY <1>4, <2>2 DEF OnBegin
    <3> QED
      BY <3>1, <3>2, <3>3 DEF MissedInv
  <2>5. widget' = "closed" => \A u \in Transfers : phase'[u] = "new" \/ u \in missed'
    BY <1>4, <2>1 DEF OnBegin, OnUpdate, OnEnd, Killed, history, MissedInv, BusInv
  <2> QED
    BY <2>3, <2>4, <2>5 DEF MissedInv
<1>5. ASSUME NEW t \in Transfers, removeFile(t) PROVE MissedInv'
  <2>1. UNCHANGED <<transfers, widget, missed>>
    BY <1>5 DEF removeFile
  <2>2. \A u \in Transfers : Untouched(u) => Untouched(u)'
    BY <1>5, ClickElsewhere
  <2> QED
    BY <2>1, <2>2 DEF MissedInv, Positions, BeginComes, transfers
<1>6. CASE crash
  BY <1>6, CrashKeeps DEF MissedInv, history
<1> QED
  BY <1>1, <1>2, <1>3, <1>4, <1>5, <1>6 DEF Next

\* The end of a transfer is the last that is heard of it.
LEMMA EndStep ==
    ASSUME BusInv, EndInv, [Next]_vars
    PROVE  EndInv'
<1>1. CASE Open \/ timer \/ timerBlinks \/ UNCHANGED vars \/ \E t \in Transfers : removeFile(t)
  BY <1>1 DEF Open, timer, timerBlinks, vars, removeFile, transfers, EndInv, Positions, IsEnd
<1>2. CASE crash
  BY <1>2, CrashKeeps DEF EndInv
<1>3. CASE Handle
  <2>1. bus # <<>> /\ bus' = Tail(bus) /\ UNCHANGED phase
    BY <1>3 DEF Handle, addFile, updateBytes, fileEnded, unknownFile, Signal, Taken
  <2>2. /\ Len(bus) \in Nat \ {0} /\ Len(bus') = Len(bus) - 1
        /\ \A n \in 1..Len(bus') : bus'[n] = bus[n + 1]
    BY <2>1, TakesOne
  <2>3. \A n \in Positions' : n \in Nat /\ n + 1 \in Positions /\ bus'[n] = bus[n + 1]
    BY <2>2 DEF Positions
  <2>4. \A n \in Positions' : IsEnd(n)' => phase'[bus'[n].of] = "ended"
    BY <2>1, <2>3 DEF EndInv, IsEnd
  <2>5. ASSUME NEW m \in Positions', NEW n \in Positions', IsEnd(m)', IsEnd(n)', bus'[m].of = bus'[n].of
        PROVE  m = n
    <3>1. m + 1 = n + 1
      BY <2>3, <2>5 DEF EndInv, IsEnd
    <3> QED BY <2>3, <3>1
  <2> QED
    BY <2>4, <2>5 DEF EndInv
<1>4. ASSUME NEW t \in Transfers, OnBegin(t) \/ OnUpdate(t) \/ OnEnd(t) \/ Killed(t) PROVE EndInv'
  <2>1. \A n \in Positions : bus[n].of \in Transfers
    BY SignalTypes
  <2>2. \A u \in Transfers : phase[u] = "ended" => phase'[u] = "ended" /\ u # t
    BY <1>4 DEF OnBegin, OnUpdate, OnEnd, Killed, BusInv
  <2>3. CASE UNCHANGED bus
    BY <2>1, <2>2, <2>3 DEF EndInv, IsEnd, Positions
  <2>4. ASSUME NEW kind \in Kinds, Emit(kind, t), widget = "open",
               kind \in {"ended", "failed"} => phase'[t] = "ended"
        PROVE  EndInv'
    <3>1. /\ Len(bus) \in Nat /\ Len(bus') = Len(bus) + 1
          /\ \A n \in Positions : bus'[n] = bus[n]
          /\ bus'[Len(bus) + 1].kind = kind /\ bus'[Len(bus) + 1].of = t
      <4>1. bus'[Len(bus) + 1] = [kind |-> kind, of |-> t]
        BY <2>4, SendsOne
      <4> QED
        BY <2>4, <4>1, SendsOne, SignalTypes
    <3>2. Positions' = Positions \cup {Len(bus) + 1}
      BY <3>1 DEF Positions
    <3>3. \A n \in Positions : IsEnd(n) => bus[n].of # t
      BY <2>1, <2>2 DEF EndInv
    <3>4. \A n \in Positions' : IsEnd(n)' => phase'[bus'[n].of] = "ended"
      BY <2>1, <2>2, <2>4, <3>1, <3>2 DEF EndInv, IsEnd
    <3>5. \A m, n \in Positions' : IsEnd(m)' /\ IsEnd(n)' /\ bus'[m].of = bus'[n].of => m = n
      BY <3>1, <3>2, <3>3 DEF EndInv, IsEnd
    <3> QED
      BY <3>4, <3>5 DEF EndInv
  <2>5. CASE OnBegin(t)
    BY <2>3, <2>4, <2>5 DEF OnBegin, Emit, Kinds
  <2>6. CASE OnUpdate(t)
    BY <2>3, <2>4, <2>6 DEF OnUpdate, Emit, Kinds
  <2>7. CASE OnEnd(t)
    BY <2>3, <2>4, <2>7 DEF OnEnd, Emit, Kinds, BusInv
  <2>8. CASE Killed(t)
    BY <2>3, <2>8 DEF Killed
  <2> QED
    BY <1>4, <2>5, <2>6, <2>7, <2>8
<1> QED
  BY <1>1, <1>2, <1>3, <1>4 DEF Next

\* An end that is handled was the only one, so a transfer that loses its row by its own
\* end has none to come.
LEMMA EndIsTaken ==
    ASSUME BusInv, EndInv, bus # <<>>, bus' = Tail(bus), Head(bus).kind \in {"ended", "failed"}
    PROVE  phase[Subject] = "ended" /\ \A s : s = Subject => ~EndComes(s)'
<1>1. /\ Len(bus) \in Nat \ {0} /\ Len(bus') = Len(bus) - 1
      /\ \A n \in 1..Len(bus') : bus'[n] = bus[n + 1]
      /\ Subject = bus[1].of /\ Head(bus) = bus[1]
  BY TakesOne DEF BusInv
<1>2. 1 \in Positions /\ IsEnd(1)
  BY <1>1 DEF Positions, IsEnd
<1>3. ASSUME NEW s, s = Subject, EndComes(s)' PROVE FALSE
  <2>1. PICK n \in Positions' : IsEnd(n)' /\ bus'[n].of = Subject
    BY <1>3 DEF EndComes, IsEnd
  <2>2. n \in Nat \ {0} /\ n + 1 \in Positions /\ bus'[n] = bus[n + 1]
    BY <1>1 DEF Positions
  <2>3. n + 1 = 1
    BY <1>1, <1>2, <2>1, <2>2 DEF EndInv, IsEnd
  <2> QED
    BY <2>2, <2>3
<1> QED
  BY <1>1, <1>2, <1>3 DEF EndInv

\* A transfer that has begun has a row until its end has been handled.
LEMMA ShownStep ==
    ASSUME BusInv, MissedInv, EndInv, EntriesInv, RowsInv, ShownInv, [Next]_vars
    PROVE  ShownInv'
<1> SUFFICES ASSUME NEW u \in Transfers \ Exempt', Shows(u)'
             PROVE  u \in rows'["all"]
  BY DEF ShownInv
<1>0. u \in Exempt => u \in Exempt'
  BY DEF Next, vars, Open, timer, timerBlinks, Handle, addFile, updateBytes, fileEnded, unknownFile,
         crash, OnBegin, OnUpdate, OnEnd, Killed, removeFile, history, Exempt
<1>1. CASE UNCHANGED vars \/ timer \/ timerBlinks
  <2>1. UNCHANGED <<transfers, items, widget>>
    BY <1>1 DEF vars, timer, timerBlinks
  <2>2. Shows(u)
    BY <2>1 DEF Shows, transfers, BeginComes, EndComes, Positions
  <2> QED
    BY <1>0, <2>1, <2>2 DEF ShownInv, items
<1>2. CASE Open
  <2>1. widget = "closed" /\ UNCHANGED <<phase, missed>>
    BY <1>2 DEF Open, transfers, history
  <2> QED
    BY <2>1 DEF MissedInv, Shows, Exempt
<1>3. CASE Handle
  <2>1. /\ bus # <<>> /\ bus' = Tail(bus) /\ UNCHANGED <<phase, widget>>
    BY <1>3 DEF Handle, addFile, updateBytes, fileEnded, unknownFile, Signal, Taken
  <2>2. ASSUME ~(u = Subject /\ Head(bus).kind = "onBegin") PROVE u \in rows["all"]
    <3>1. Shows(u)
      BY <2>1, <2>2, TakesBegin DEF Shows
    <3> QED
      BY <1>0, <3>1 DEF ShownInv
  <2>3. CASE addFile
    <3>1. rows'["all"] = rows["all"] \cup {Subject}
      BY <2>3 DEF addFile, AddedRows, RowsInv, Boxes, Own
    <3> QED
      BY <2>2, <3>1
  <2>4. CASE updateBytes \/ unknownFile
    <3>1. Head(bus).kind # "onBegin" /\ UNCHANGED rows
      BY <2>4 DEF updateBytes, unknownFile, Signal, items
    <3> QED
      BY <2>2, <3>1
  <2>5. CASE fileEnded
    <3>1. /\ rows' = MovedRows /\ Head(bus).kind \in {"ended", "failed"}
          /\ misled' = IF Found = Subject THEN misled ELSE misled \cup {Found}
      BY <2>5 DEF fileEnded, Signal
    <3>2. rows'["all"] = rows["all"] \ {Found} /\ u \in rows["all"]
      BY <2>2, <3>1 DEF MovedRows, Without, Boxes
    <3>3. u # Found
      <4>1. CASE Found = Subject
        <5>1. phase[Subject] = "ended" /\ \A s : s = Subject => ~EndComes(s)'
          BY <2>1, <3>1, EndIsTaken
        <5>2. phase'[u] = "ended" => EndComes(u)'
          BY DEF Shows
        <5> QED
          BY <2>1, <4>1, <5>1, <5>2
      <4>2. CASE Found # Subject
        BY <3>1, <4>2 DEF Exempt
      <4> QED
        BY <4>1, <4>2
    <3> QED
      BY <3>2, <3>3
  <2> QED
    BY <1>3, <2>3, <2>4, <2>5 DEF Handle
<1>4. ASSUME NEW t \in Transfers, OnBegin(t) \/ OnUpdate(t) \/ OnEnd(t) \/ Killed(t)
      PROVE  u \in rows'["all"]
  <2>1. UNCHANGED <<widget, rows>> /\ widget = "open"
    BY <1>4 DEF OnBegin, OnUpdate, OnEnd, Killed, items, Shows
  <2>2. ~BeginComes(u) /\ phase[u] # "new"
    <3>1. u # t => phase'[u] = phase[u]
      BY <1>4 DEF OnBegin, OnUpdate, OnEnd, Killed, BusInv
    <3> QED
      BY <1>4, <2>1, <3>1, SendsBegin DEF Shows
  <2>3. phase[u] = "ended" => EndComes(u)
    <3>1. phase[u] = "ended" => u # t /\ phase'[u] = "ended"
      BY <1>4 DEF OnBegin, OnUpdate, OnEnd, Killed, BusInv
    <3> QED
      BY <1>4, <3>1, SendsBegin DEF Shows
  <2> QED
    BY <1>0, <2>1, <2>2, <2>3 DEF ShownInv, Shows
<1>5. ASSUME NEW t \in Transfers, removeFile(t) PROVE u \in rows'["all"]
  <2>1. /\ rows'["all"] = rows["all"] \ {Clicked(t)} /\ UNCHANGED <<transfers, widget>> /\ Id[t] \in Ids
        /\ Clicked(t) # None
        /\ IF files[Id[t]] # None THEN mistaken' = mistaken \cup {Clicked(t)}
           ELSE Clicked(t) = received[Id[t]]
    BY <1>5, WidgetOK DEF removeFile, Boxes, Clicked
  <2>2. Shows(u)
    BY <2>1 DEF Shows, transfers, BeginComes, EndComes, Positions
  <2>3. u \in rows["all"]
    BY <1>0, <2>2 DEF ShownInv
  <2>4. u # Clicked(t)
    BY <2>1, <2>3 DEF Exempt, EntriesInv
  <2> QED
    BY <2>1, <2>3, <2>4
<1>6. CASE crash
  BY <1>6, CrashKeeps DEF Shows
<1> QED
  BY <1>1, <1>2, <1>3, <1>4, <1>5, <1>6 DEF Next

\* No entry is left of an item that was deleted, nor a row with a button.
LEMMA NothingDeleted ==
    ASSUME BusInv, EntriesInv, RowsInv, ItemsInv
    PROVE  ~UsesDeleted
<1>1. ASSUME NEW id \in Ids PROVE ~Deleted(files[id]) /\ ~Deleted(received[id])
  <2>1. files[id] # None => status[files[id]] # 0
    BY DEF EntriesInv, RowsInv, Boxes
  <2> QED
    BY <2>1 DEF ItemsInv, Deleted
<1>2. ASSUME bus # <<>> PROVE ~Deleted(Found)
  <2>1. Subject \in Transfers
    <3>1. bus[1] = Head(bus) /\ 1 \in Positions
      BY <1>2 DEF BusInv, Positions
    <3> QED
      BY <3>1, SignalTypes DEF Subject
  <2>2. Id[Subject] \in Ids
    BY <2>1, WidgetOK
  <2> QED
    BY <1>1, <2>2 DEF Found
<1>3. ASSUME NEW t \in rows["recved"] PROVE ~Deleted(t) /\ ~Deleted(Clicked(t))
  <2>1. t \in Transfers /\ status[t] # 0
    BY DEF RowsInv, Boxes
  <2>2. Id[t] \in Ids
    BY <2>1, WidgetOK
  <2> QED
    BY <1>1, <2>1, <2>2 DEF Clicked, Deleted
<1> QED
  BY <1>2, <1>3 DEF UsesDeleted

LEMMA ItemsStep ==
    ASSUME BusInv, EntriesInv, RowsInv, ItemsInv, [Next]_vars
    PROVE  ItemsInv'
<1>1. widget' # "corrupt"
  <2>1. widget' \in {widget, "open"} \/ crash
    BY DEF Next, vars, Open, timer, timerBlinks, Handle, addFile, updateBytes, fileEnded,
           unknownFile, OnBegin, OnUpdate, OnEnd, Killed, removeFile
  <2>2. crash => widget' = "crashed"
    BY NothingDeleted DEF crash
  <2> QED
    BY <2>1, <2>2 DEF ItemsInv
<1>2. CASE UNCHANGED <<items, counts, replaced, mistaken, misled>>
  BY <1>1, <1>2 DEF ItemsInv, items
<1>3. CASE addFile
  <2>1. status' = [status EXCEPT ![Subject] = Begun(Subject)] /\ UNCHANGED received /\ Begun(Subject) # 0
    BY <1>3 DEF addFile, Begun
  <2>2. \A t \in Transfers : status[t] # 0 => status'[t] # 0
    BY <2>1 DEF RowsInv
  <2> QED
    BY <1>1, <2>1, <2>2 DEF ItemsInv, EntriesInv
<1>4. CASE updateBytes
  <2>1. status' = [status EXCEPT ![Found] = Moving(Found)] /\ UNCHANGED received /\ Moving(Found) # 0
    BY <1>4 DEF updateBytes, Moving
  <2>2. \A t \in Transfers : status[t] # 0 => status'[t] # 0
    BY <2>1 DEF RowsInv
  <2> QED
    BY <1>1, <2>1, <2>2 DEF ItemsInv, EntriesInv
<1>5. CASE fileEnded
  <2>1. /\ \E s \in {6, 7} : status' = [status EXCEPT ![Found] = s]
        /\ UNCHANGED received \/ received' = [received EXCEPT ![Id[Found]] = Found]
    BY <1>5 DEF fileEnded
  <2>2. \A t \in Transfers : status[t] # 0 \/ t = Found => status'[t] # 0
    BY <2>1 DEF RowsInv
  <2>3. Found \in Transfers
    BY <1>5, AtEnd
  <2>4. ASSUME NEW id \in Ids, received'[id] # None PROVE status'[received'[id]] # 0
    BY <2>1, <2>2, <2>3, <2>4 DEF ItemsInv, EntriesInv
  <2> QED
    BY <1>1, <2>4 DEF ItemsInv
<1>6. ASSUME NEW t \in Transfers, removeFile(t) PROVE ItemsInv'
  <2>1. /\ status' = [status EXCEPT ![Clicked(t)] = 0] /\ Id[t] \in Ids /\ Clicked(t) # None
        /\ IF files[Id[t]] # None THEN UNCHANGED received /\ Clicked(t) = files[Id[t]]
           ELSE received' = [received EXCEPT ![Id[t]] = None] /\ Clicked(t) = received[Id[t]]
    BY <1>6, WidgetOK DEF removeFile, Clicked, Erased
  <2>2. ASSUME NEW id \in Ids, received'[id] # None PROVE status'[received'[id]] # 0
    <3>1. received'[id] = received[id] /\ received[id] \in Transfers /\ received[id] # Clicked(t)
      BY <2>1, <2>2 DEF EntriesInv
    <3> QED
      BY <2>1, <2>2, <3>1 DEF ItemsInv, RowsInv
  <2> QED
    BY <1>1, <2>2 DEF ItemsInv
<1> QED
  BY <1>2, <1>3, <1>4, <1>5, <1>6, Elsewhere

LEMMA InitInv == Init => Inv
<1> SUFFICES ASSUME Init PROVE Inv
  OBVIOUS
<1>1. Cardinality({}) = 0 /\ mistaken \cap Uploads = {} /\ mistaken \ Uploads = {}
  BY FS_EmptySet DEF Init
<1>2. Positions = {}
  BY DEF Init, Positions
<1>3. BusInv
  BY <1>2, WidgetOK DEF Init, BusInv, BeginComes, EndComes, Untouched
<1>4. EntriesInv /\ RowsInv /\ FollowInv /\ ClosedInv /\ ItemsInv /\ IconInv
  BY DEF Init, EntriesInv, RowsInv, FollowInv, ClosedInv, ItemsInv, IconInv, Boxes
<1>6. MissedInv /\ EndInv /\ ShownInv
  BY <1>2 DEF Init, MissedInv, EndInv, ShownInv, Shows
<1>5. CountInv
  BY <1>1 DEF Init, CountInv, Boxes
<1> QED
  BY <1>3, <1>4, <1>5, <1>6 DEF Inv

LEMMA Inductive == Spec => []Inv
<1>1. Inv /\ [Next]_vars => Inv'
  BY BusStep, MissedStep, EndStep, EntriesStep, RowsStep, CountStep, FollowStep, ShownStep,
     ClosedStep, ItemsStep, IconStep DEF Inv
<1> QED
  BY InitInv, <1>1, PTL DEF Spec

-----------------------------------------------------------------------------
(* What the window and the icon show.                                      *)

\* However transfers share ids, and whatever is clicked, the counters of the status are
\* those of the rows in the boxes and of the items a click took away uncounted, and no
\* row is left of a deleted item (addFile, fileEnded and removeFile of widget-gtk.cpp).
THEOREM CountsShown == Spec => []CountsAreRows
<1>1. Inv => CountsAreRows
  BY DEF Inv, CountInv, RowsInv, CountsAreRows
<1> QED
  BY Inductive, <1>1, PTL

\* A file whose begin the widget has handled has a row until its end is handled, whatever
\* comes between, and none before and after; a received file can be found by its button
\* (addFile, fileEnded and removeFile of widget-gtk.cpp).  The items that lost their id to
\* another, and those the widget was not there to hear of, are told apart.
THEOREM RowsShown == Spec => []RowsFollow
<1>1. Inv => RowsFollow
  <2> SUFFICES ASSUME Inv, widget = "open", NEW t \in Transfers \ (replaced \cup mistaken \cup misled)
               PROVE  /\ t \in rows["all"] <=>
                             /\ t \notin missed /\ phase[t] # "new" /\ ~Comes({"onBegin"}, t)
                             /\ phase[t] = "ended" => Comes({"ended", "failed"}, t)
                      /\ t \in rows["all"] => files[Id[t]] = t
                      /\ t \in rows["recved"] => received[Id[t]] = t
    BY DEF RowsFollow
  <2>1. DOMAIN bus = Positions
    BY DEF Inv, BusInv, Positions
  <2>2. Comes({"onBegin"}, t) <=> BeginComes(t)
    BY <2>1 DEF BeginComes, Comes
  <2>3. Comes({"ended", "failed"}, t) <=> EndComes(t)
    BY <2>1 DEF EndComes, Comes
  <2>4. t \in rows["all"] => ~Untouched(t)
    BY DEF Untouched, Boxes
  <2>5. t \in rows["all"] => phase[t] # "new" /\ ~BeginComes(t) /\ t \notin missed
    BY <2>4 DEF Inv, BusInv, MissedInv
  <2>6. t \in rows["all"] => (phase[t] = "ended" => EndComes(t))
    BY DEF Inv, FollowInv
  <2>7. t \notin missed /\ Shows(t) => t \in rows["all"]
    BY DEF Inv, ShownInv, Exempt
  <2> QED
    BY <2>2, <2>3, <2>5, <2>6, <2>7 DEF Inv, FollowInv, Shows
<1> QED
  BY Inductive, <1>1, PTL

\* The tray icon tells sending from receiving from both from neither, at each tick of
\* the timer and after each signal (statusChanged and timer of gtkTrayIcon).
THEOREM IconShown == Spec => []IconFollows
<1>1. Inv => IconFollows
  BY DEF Inv, IconInv, IconFollows
<1> QED
  BY Inductive, <1>1, PTL

\* However transfers share ids, and whatever is clicked, no entry of the two maps and no
\* button is left of an item that was deleted: no handler uses one (updateBytes, fileEnded
\* and removeFile of widget-gtk.cpp, lines 521-638).
THEOREM ItemsAreThere == Spec => []ItemsExist
<1>1. Inv => ItemsExist
  BY DEF Inv, ItemsInv, ItemsExist
<1> QED
  BY Inductive, <1>1, PTL

=============================================================================
