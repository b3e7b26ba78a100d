------------------------------- MODULE Widget -------------------------------
(***************************************************************************)
(* The window and the tray icon of src/widget-gtk.cpp, and the D-Bus       *)
(* signals plugins/dbus.cpp sends it from the server and from every isend. *)
(* The bus keeps the order of signals.  Everything in the widget happens   *)
(* in GTK's main loop, a handler at a time.  A FileInfoItem is named after *)
(* the transfer it was made for, and so are the rows (renderers) of it.    *)
(***************************************************************************)
EXTENDS Naturals, Sequences, FiniteSets

CONSTANTS Transfers,
          Ids, Id,    \* getId(): random for the server, the process's for isend
          Uploads,    \* transfers of isend; the others are the server's
          Empty,      \* transfers of empty files
          MaxUpdates, \* bound: updates of a transfer that goes on
          Room,       \* bound: signals on their way
          Blink,      \* ticks of the timer between two changes of excmark
          None

ASSUME WidgetOK ==
    /\ Id \in [Transfers -> Ids] /\ IsFiniteSet(Transfers)
    /\ Uploads \subseteq Transfers /\ Empty \subseteq Transfers /\ None \notin Transfers
    /\ {MaxUpdates, Room, Blink} \subseteq Nat

VARIABLES
    phase, updates,       \* the transfers
    bus,                  \* signals on their way
    widget,               \* "closed", "open", "crashed" by a division by zero, or
                          \* "corrupt" by the use of an item that was deleted
    files, received,      \* maps from ids to items, None where there is no entry
    status,               \* FileInfoItem::status, 0 when there is no item
    rows,                 \* the items with a row in a box
    sendFileCount, recvFileCount,
    animating, excmark, animem, cnt, icon,    \* gtkTrayIcon
    told,                 \* whether statusChanged was called
    missed,               \* history: transfers that began before the widget was open,
    replaced, mistaken,   \* items whose entry another took, or whose row was removed by
    misled                \* a click on another's, or that another's end has ended

transfers == <<phase, updates, bus>>
items == <<files, received, status, rows>>
counts == <<sendFileCount, recvFileCount>>
tray == <<animating, excmark, animem, cnt, icon, told>>
history == <<missed, replaced, mistaken, misled>>
vars == <<transfers, widget, items, counts, tray, history>>

Boxes == {"all", "recv", "send", "recved"}
Own(t) == IF t \in Uploads THEN "send" ELSE "recv"

Init ==
    /\ phase = [t \in Transfers |-> "new"] /\ updates = [t \in Transfers |-> 0]
    /\ bus = <<>> /\ widget = "closed"
    /\ files = [id \in Ids |-> None] /\ received = files
    /\ status = [t \in Transfers |-> 0]
    /\ rows = [b \in Boxes |-> {}]
    /\ sendFileCount = 0 /\ recvFileCount = 0
    /\ animating = FALSE /\ icon = "main" /\ told = FALSE
    /\ excmark = FALSE /\ animem = FALSE /\ cnt = 0
    /\ missed = {} /\ replaced = {} /\ mistaken = {} /\ misled = {}

\* excmark, animem and cnt are not initialised.
Open ==
    /\ widget = "closed"
    /\ widget' = "open"
    /\ excmark' \in BOOLEAN /\ animem' \in BOOLEAN /\ cnt' \in 0..Blink
    /\ UNCHANGED <<transfers, items, counts, animating, icon, told, history>>

-----------------------------------------------------------------------------
(* plugins/dbus.cpp: one signal per event.                                 *)

Emit(kind, t) ==
    IF widget = "open" THEN Len(bus) < Room /\ bus' = Append(bus, [kind |-> kind, of |-> t])
    ELSE UNCHANGED bus

\* The server has one transfer of an id at a time, and an isend one of its own.
SameSource(t, u) == Id[t] = Id[u] /\ (t \in Uploads <=> u \in Uploads)

OnBegin(t) ==
    /\ phase[t] = "new"
    /\ \A u \in Transfers \ {t} : SameSource(t, u) => phase[u] \in {"new", "ended"}
    /\ Emit("onBegin", t)
    /\ phase' = [phase EXCEPT ![t] = "begun"]
    /\ missed' = IF widget = "open" THEN missed ELSE missed \cup {t}
    /\ UNCHANGED <<updates, widget, items, counts, tray, replaced, mistaken, misled>>

OnUpdate(t) ==
    /\ phase[t] = "begun" /\ updates[t] < MaxUpdates
    /\ Emit("onUpdate", t)
    /\ updates' = [updates EXCEPT ![t] = @ + 1]
    /\ UNCHANGED <<phase, widget, items, counts, tray, history>>

OnEnd(t) ==
    /\ phase[t] = "begun"
    /\ \E kind \in {"ended", "failed"} : Emit(kind, t)
    /\ phase' = [phase EXCEPT ![t] = "ended"] /\ updates' = [updates EXCEPT ![t] = 0]
    /\ UNCHANGED <<widget, items, counts, tray, history>>

\* The process that transfers is killed.
Killed(t) ==
    /\ phase[t] = "begun"
    /\ phase' = [phase EXCEPT ![t] = "killed"] /\ updates' = [updates EXCEPT ![t] = 0]
    /\ UNCHANGED <<bus, widget, items, counts, tray, history>>

-----------------------------------------------------------------------------
(* The tray icon.  Nothing is ever pending.                                *)

\* Mutant: the last else is missing.
PictureKept(recv, send) ==
    CASE recv /\ send  -> "uploaddownload"
      [] recv /\ ~send -> "dlAnim"
      [] ~recv /\ send -> "ulAnim"
      [] OTHER         -> icon

Picture(recv, send) ==
    CASE recv /\ send  -> "uploaddownload"
      [] recv /\ ~send -> "dlAnim"
      [] ~recv /\ send -> "ulAnim"
      [] OTHER         -> "main"

\* With the counts the handler has left.
statusChanged ==
    LET recv == recvFileCount' > 0
        send == sendFileCount' > 0
    IN  /\ icon' = Picture(recv, send)
        /\ animating' = (recv # send)
        /\ animem' = FALSE /\ excmark' = FALSE /\ told' = TRUE
        /\ UNCHANGED cnt

Ticks == IF animating THEN IF recvFileCount > 0 THEN "dlAnim" ELSE "ulAnim" ELSE icon

timer ==
    /\ widget = "open" /\ cnt < Blink
    /\ icon' = Ticks /\ cnt' = cnt + 1
    /\ UNCHANGED <<transfers, widget, items, counts, animating, excmark, animem, told, history>>

\* Every tenth tick.  While files are only sent, the picture of receiving is taken.
timerBlinks ==
    /\ widget = "open" /\ cnt >= Blink
    /\ cnt' = 0 /\ excmark' = ~excmark
    /\ LET recv == recvFileCount > 0
           send == sendFileCount > 0
       IN  IF excmark
           THEN /\ animating' = IF recv \/ send THEN recv # send ELSE animating
                /\ icon' = CASE recv /\ send -> "uploaddownload"
                             [] recv # send  -> "dlAnim"
                             [] OTHER        -> Ticks
           ELSE icon' = (IF animem THEN "exclamation" ELSE Ticks) /\ UNCHANGED animating
    /\ UNCHANGED <<transfers, widget, items, counts, animem, told, history>>

-----------------------------------------------------------------------------
(* filter_func, and what it calls.                                         *)

Signal(kind) == widget = "open" /\ bus # <<>> /\ Head(bus).kind = kind
Taken == bus' = Tail(bus) /\ UNCHANGED <<phase, updates>>
Subject == Head(bus).of

Found == files[Id[Subject]]

\* updateData divides by the size to draw a file that is being sent or received.
Divides(t, s) == s \in {3, 4} /\ t \in Empty

Begun(t) == IF t \in Uploads THEN 1 ELSE 4

\* Mutant: an id that has a row gets no other.
AddedOnce ==
    IF Found = None THEN [rows EXCEPT !["all"] = @ \cup {Subject}, ![Own(Subject)] = @ \cup {Subject}]
    ELSE rows

AddedRows == [rows EXCEPT !["all"] = @ \cup {Subject}, ![Own(Subject)] = @ \cup {Subject}]

\* The entry of another item of this id is overwritten, its rows stay.
addFile ==
    /\ Signal("onBegin") /\ ~Divides(Subject, Begun(Subject))
    /\ Taken
    /\ files' = [files EXCEPT ![Id[Subject]] = Subject]
    /\ replaced' = IF Found = None THEN replaced ELSE replaced \cup {Found}
    /\ status' = [status EXCEPT ![Subject] = Begun(Subject)]
    /\ rows' = AddedRows
    /\ IF Subject \in Uploads
       THEN sendFileCount' = sendFileCount + 1 /\ UNCHANGED recvFileCount
       ELSE recvFileCount' = recvFileCount + 1 /\ UNCHANGED sendFileCount
    /\ statusChanged
    /\ UNCHANGED <<widget, received, missed, mistaken, misled>>

Moving(t) == IF t \in Uploads THEN 3 ELSE 4

updateBytes ==
    /\ Signal("onUpdate") /\ Found # None /\ ~Divides(Found, Moving(Found))
    /\ Taken
    /\ status' = [status EXCEPT ![Found] = Moving(Found)]
    /\ UNCHANGED counts /\ statusChanged
    /\ UNCHANGED <<widget, files, received, rows, history>>

Without(t) == [b \in Boxes |-> IF b \in {"all", Own(t)} THEN rows[b] \ {t} ELSE rows[b]]

\* Mutant: the row of the whole list is forgotten.
Finished == [rows EXCEPT ![Own(Found)] = @ \ {Found}]

\* Mutant: the entry stays.
Kept(map, id) == map

Erased(map, id) == [map EXCEPT ![id] = None]

\* The rows of a download move to the list of what was received; an upload's row is
\* made, and destroyed at the end of the function.
MovedRows == [Without(Found) EXCEPT !["recved"] = IF Found \in Uploads THEN @ ELSE @ \cup {Found}]

fileEnded ==
    /\ Signal("ended") \/ Signal("failed")
    /\ Found # None
    /\ Taken
    /\ status' = [status EXCEPT ![Found] = IF Head(bus).kind = "ended" THEN 6 ELSE 7]
    /\ rows' = MovedRows
    /\ files' = Erased(files, Id[Subject])
    /\ misled' = IF Found = Subject THEN misled ELSE misled \cup {Found}
    /\ IF Found \in Uploads
       THEN /\ sendFileCount' = sendFileCount - 1
            /\ UNCHANGED <<recvFileCount, received, replaced>>
       ELSE /\ recvFileCount' = recvFileCount - 1 /\ UNCHANGED sendFileCount
            /\ received' = [received EXCEPT ![Id[Found]] = Found]
            /\ replaced' = replaced \cup ({received[Id[Found]]} \ {None})
    /\ statusChanged
    /\ UNCHANGED <<widget, missed, mistaken>>

\* The widget was opened after the begin, or the file was removed.
unknownFile ==
    /\ Signal("onUpdate") \/ Signal("ended") \/ Signal("failed")
    /\ Found = None
    /\ Taken
    /\ UNCHANGED <<widget, items, counts, tray, history>>

-----------------------------------------------------------------------------
(* The button that removes a row, which only rows of ended files have.     *)

\* The id is looked up among the files in transfer first.
Clicked(t) == IF files[Id[t]] # None THEN files[Id[t]] ELSE received[Id[t]]

removeFile(t) ==
    /\ widget = "open" /\ t \in rows["recved"]
    /\ LET hit == Clicked(t)
       IN  /\ hit # None
           /\ rows' = [b \in Boxes |-> rows[b] \ {hit}]
           /\ status' = [status EXCEPT ![hit] = 0]
           /\ IF files[Id[t]] # None
              THEN /\ files' = Erased(files, Id[t])
                   /\ mistaken' = mistaken \cup {hit}
                   /\ UNCHANGED received
              ELSE /\ received' = Erased(received, Id[t])
                   /\ UNCHANGED <<files, mistaken>>
    /\ UNCHANGED <<transfers, widget, counts, tray, missed, replaced, misled>>

-----------------------------------------------------------------------------
(* What stops the widget.                                                  *)

DividesByZero ==
    \/ Signal("onBegin") /\ Divides(Subject, Begun(Subject))
    \/ Signal("onUpdate") /\ Found # None /\ Divides(Found, Moving(Found))

\* A handler takes the item from an entry, a button the one its row was made for.
Deleted(t) == t # None /\ status[t] = 0
UsesDeleted ==
    \/ bus # <<>> /\ Head(bus).kind # "onBegin" /\ Deleted(Found)
    \/ \E t \in rows["recved"] : Deleted(t) \/ Deleted(Clicked(t))

crash ==
    /\ widget = "open" /\ (DividesByZero \/ UsesDeleted)
    /\ widget' = IF UsesDeleted THEN "corrupt" ELSE "crashed"
    /\ bus' = <<>>
    /\ UNCHANGED <<phase, updates, items, counts, tray, history>>

Handle == addFile \/ updateBytes \/ fileEnded \/ unknownFile

Next ==
    \/ Open \/ timer \/ timerBlinks \/ Handle \/ crash
    \/ \E t \in Transfers :
           OnBegin(t) \/ OnUpdate(t) \/ OnEnd(t) \/ Killed(t) \/ removeFile(t)

Spec == Init /\ [][Next]_vars

-----------------------------------------------------------------------------
(* Properties.                                                             *)

TypeOK ==
    /\ phase \in [Transfers -> {"new", "begun", "ended", "killed"}]
    /\ widget \in {"closed", "open", "crashed", "corrupt"}
    /\ files \in [Ids -> Transfers \cup {None}] /\ received \in [Ids -> Transfers \cup {None}]
    /\ \A id \in Ids : {files[id], received[id]} \ {None} \subseteq {t \in Transfers : Id[t] = id}
    /\ status \in [Transfers -> {0, 1, 3, 4, 6, 7}]
    /\ rows \in [Boxes -> SUBSET Transfers]
    /\ {sendFileCount, recvFileCount} \subseteq 0..Cardinality(Transfers)
    /\ {animating, excmark, animem, told} \subseteq BOOLEAN /\ cnt \in 0..Blink
    /\ icon \in {"main", "uploaddownload", "dlAnim", "ulAnim", "exclamation"}

\* The counts the icon is drawn from are those of the rows the window shows, and no
\* row shows an item that was deleted.  A click on a finished file whose id a file in
\* transfer has got deletes that one without counting.
CountsAreRows ==
    /\ sendFileCount = Cardinality(rows["send"]) + Cardinality(mistaken \cap Uploads)
    /\ recvFileCount = Cardinality(rows["recv"]) + Cardinality(mistaken \ Uploads)
    /\ rows["all"] = rows["send"] \cup rows["recv"]
    /\ \A b \in Boxes : \A t \in rows[b] : status[t] # 0

Comes(kinds, t) == \E n \in DOMAIN bus : bus[n].kind \in kinds /\ bus[n].of = t

\* A file has a row from when its begin has been handled until its end has, and at no
\* other time, whatever other files come and go; when it was received, it can be removed.
\* Not so for items that share their id: one whose entry another took, which a click on
\* another removed, or which the end of another has ended.  The row of an isend that was
\* killed stays.
RowsFollow ==
    widget = "open" =>
        \A t \in Transfers \ (replaced \cup mistaken \cup misled) :
            /\ t \in rows["all"] <=>
                   /\ t \notin missed /\ phase[t] # "new" /\ ~Comes({"onBegin"}, t)
                   /\ phase[t] = "ended" => Comes({"ended", "failed"}, t)
            /\ t \in rows["all"] => files[Id[t]] = t
            /\ t \in rows["recved"] => received[Id[t]] = t

\* Once it has been told of a file, the icon shows what goes on: except that it shows
\* a download for one tick in twenty when files are only sent.
IconFollows ==
    told => LET recv == recvFileCount > 0
                send == sendFileCount > 0
            IN  /\ icon = "main" <=> ~recv /\ ~send
                /\ icon = "uploaddownload" <=> recv /\ send
                /\ icon = "ulAnim" => ~recv
                /\ icon = "dlAnim" => recv \/ (send /\ cnt = 0)

\* No order of signals and clicks makes a handler use an item that was deleted: also not
\* after a click on a received file whose id a file in transfer has got, which deletes the
\* item that the next signals are about.
ItemsExist == widget # "corrupt"

=============================================================================
