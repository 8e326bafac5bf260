--------------------------- MODULE CodaScanProofs ---------------------------
(***************************************************************************)
(* Proofs about CodaScan, for every number of rows and changes, page and   *)
(* vector size, pushed limit and kind of sync token: type correctness, no  *)
(* row that was not in the table, no row lost, and that the scan           *)
(* implements RowStream; then the order in which rows are delivered, what  *)
(* the sync check may repeat, and how far a scan passes its limit.         *)
(*                                                                         *)
(* Then about CodaStatement: a statement that writes the table it reads    *)
(* drives its scan as CodaScan allows, so all that is proved of a scan     *)
(* holds for it too; it writes every row it should; a DELETE counts no row *)
(* twice by its own doing, and a statement that fits in a vector never     *)
(* reads what it wrote.  For any number of rows, edits, limit and sizes.   *)
(***************************************************************************)
EXTENDS CodaStatement, FiniteSetTheorems, TLAPS

USE DEF Rows

(* Types.                                                                  *)

\* A request's position is a page token: where a listing, or a listing of
\* changes, goes on.
LEMMA PositionType ==
    ASSUME NEW q \in Request, clock \in Nat
    PROVE  Position(q) \in PageToken
<1>1. CASE q.page # NoToken
  BY <1>1 DEF Position, Request
<1>2. CASE q.page = NoToken
  BY <1>2, ScanAssumption DEF Position, Request, PageToken
<1>3. QED
  BY <1>1, <1>2

\* The limit of a request is a positive number.
LEMMA PageLimitType == PageLimit \in Nat \ {0}
BY ScanAssumption DEF PageLimit

\* Every variable keeps its type, whatever the constants are: in particular
\* remaining_rows never passes below zero and a vector is never overfilled.
THEOREM TypeCorrect == Spec => []TypeOK
<1>1. Init => TypeOK
  <2> SUFFICES ASSUME Init PROVE TypeOK
    OBVIOUS
  <2>1. exposed \subseteq Version /\ stable \subseteq Rows
    BY DEF Init, Version
  <2>2. request \in Request /\ response \in Response
    BY DEF Init, Request, Response, NoRequest, NoResponse
  <2>3. out \in Seq(Version) /\ out_row \in 0..VectorSize
    BY ScanAssumption DEF Init
  <2>4. QED
    BY <2>1, <2>2, <2>3, ScanAssumption DEF Init, TypeOK, Phases, Ended
<1>2. TypeOK /\ [Next]_vars => TypeOK'
  <2> SUFFICES ASSUME TypeOK, [Next]_vars
               PROVE  TypeOK'
    OBVIOUS
  <2> USE ScanAssumption DEF TypeOK, Phases, Ended
  <2>1. ASSUME NEW r \in Rows, NEW alive \in BOOLEAN, Change(r, alive)
        PROVE  TypeOK'
    BY <2>1 DEF Change, Version, handle, wire, vectors
  <2>2. CASE ScanCall
    BY <2>2 DEF ScanCall, server, handle, wire
  <2>3. CASE EmitRow
    <3>1. PICK v \in rows : rows' = rows \ {v} /\ out' = Append(out, v)
      BY <2>3 DEF EmitRow
    <3>2. out' \in Seq(Version)
      BY <3>1
    <3>3. remaining_rows' \in Nat /\ out_row' \in 0..VectorSize /\ scan_finished' \in BOOLEAN
      BY <2>3 DEF EmitRow, Countdown, HitsLimit
    <3>4. QED
      BY <2>3, <3>1, <3>2, <3>3 DEF EmitRow, server, handle, wire
  <2>4. CASE ReturnChunk
    BY <2>4 DEF ReturnChunk, server, handle, wire, vectors
  <2>5. CASE SendRequest
    BY <2>5 DEF SendRequest, AsksSync, Request, server, vectors
  <2>6. CASE Serve
    <3> DEFINE t == Position(request)
    <3>1. t \in PageToken
      BY PositionType
    <3>2. PICK upto \in (t.after + 1)..(NRows + 1), tombstones \in BOOLEAN, offered \in OffersSync :
            response' = [entries |-> {Entry(r) : r \in Page(t, upto, tombstones)},
                         page |-> IF upto > NRows THEN NoToken ELSE [t EXCEPT !.after = upto],
                         sync |-> IF offered THEN SyncToken(t) ELSE NoToken]
      BY <2>6 DEF Serve
    <3>3. {Entry(r) : r \in Page(t, upto, tombstones)}
            \in SUBSET [id : Rows, stamp : Nat, deleted : BOOLEAN]
      <4>1. \A r \in Rows : Entry(r) \in [id : Rows, stamp : Nat, deleted : BOOLEAN]
        BY DEF Entry
      <4>2. Page(t, upto, tombstones) \subseteq Rows
        BY DEF Page
      <4>3. QED
        BY <4>1, <4>2
    <3>4. (IF upto > NRows THEN NoToken ELSE [t EXCEPT !.after = upto]) \in PageToken \cup {NoToken}
      <4> HIDE DEF t
      <4>1. t.after \in 0..NRows
        BY <3>1 DEF PageToken
      <4>2. ~(upto > NRows) => upto \in 0..NRows
        BY <4>1
      <4>3. QED
        BY <3>1, <4>2 DEF PageToken
    <3>5. (IF offered THEN SyncToken(t) ELSE NoToken) \in Nat \cup {NoToken}
      BY <3>1 DEF SyncToken, PageToken
    <3>6. response' \in Response
      BY <3>2, <3>3, <3>4, <3>5 DEF Response
    <3>7. QED
      BY <2>6, <3>6 DEF Serve, server, handle, vectors
  <2>7. CASE HandleResponse
    <3>1. Visible(response.entries) \subseteq Version
      BY DEF Visible, Response, Version
    <3>2. IsLast(response) \in BOOLEAN
      BY DEF IsLast
    <3>3. NoResponse \in Response
      BY DEF NoResponse, Response
    <3>4. QED
      BY <2>7, <3>1, <3>2, <3>3 DEF HandleResponse, Response, server
  <2>8. CASE Fail \/ Close \/ Over \/ UNCHANGED vars
    BY <2>8 DEF Fail, Close, Over, vars, server, handle, wire, vectors
  <2>9. QED
    BY <2>1, <2>2, <2>3, <2>4, <2>5, <2>6, <2>7, <2>8 DEF Next, Scan
<1>3. QED
  BY <1>1, <1>2, PTL DEF Spec
-----------------------------------------------------------------------------
(* The inductive invariant.                                                *)

\* The history variables agree with the table.
TableExposed ==
    /\ \A r \in Rows : live[r] => [id |-> r, stamp |-> stamp[r]] \in exposed
    /\ \A r \in stable : live[r]

\* What is on its way to the query was in the table.
StreamExposed ==
    /\ Visible(response.entries) \subseteq exposed
    /\ rows \subseteq exposed
    /\ EmittedWasLive

\* While a batch is being fetched the previous one is used up and nothing has
\* been declared finished.
FetchingIsOpen ==
    phase \in {"requesting", "sent", "served"} => rows = {} /\ ~finished /\ ~scan_finished

\* A scan ends normally only with nothing left to emit, and only because the
\* listing and the sync check are over or the limit was reached.
DoneIsFinished ==
    /\ phase = "done" => rows = {} /\ scan_finished
    /\ scan_finished => finished \/ LimitReached
    /\ finished => scan_finished

\* remaining_rows counts the pushed limit down to zero.
RemainingCounts ==
    remaining_rows = IF PushedLimit > Len(out) THEN PushedLimit - Len(out) ELSE 0

\* The request ScanHandle::request would make next.
Upcoming == [page |-> next_page_token, sync |-> IF AsksSync THEN next_sync_token ELSE NoToken]

\* The listing has yet to come to row r, or it is in the response in hand.
ToCome(r) ==
    IF phase = "sent" THEN Position(request).kind = "list" /\ Position(request).after < r
    ELSE IF phase = "served"
    THEN \/ \E e \in response.entries : e.id = r /\ ~e.deleted
         \/ response.page # NoToken /\ response.page.kind = "list" /\ response.page.after < r
    ELSE ~finished /\ Position(Upcoming).kind = "list" /\ Position(Upcoming).after < r

\* No row that stayed in the table has been passed over.
NonePassedOver ==
    phase # "failed" =>
        \A r \in stable : r \in Delivered \/ (\E v \in rows : v.id = r) \/ ToCome(r)

ScanInv ==
    /\ TableExposed
    /\ StreamExposed
    /\ FetchingIsOpen
    /\ DoneIsFinished
    /\ RemainingCounts
    /\ NonePassedOver

(* It is inductive.                                                        *)

LEMMA InitScanInv == Init => ScanInv
<1> SUFFICES ASSUME Init PROVE ScanInv
  OBVIOUS
<1> USE ScanAssumption DEF Init
<1>1. TableExposed
  BY DEF TableExposed
<1>2. StreamExposed
  BY DEF StreamExposed, EmittedWasLive, Visible, NoResponse
<1>3. FetchingIsOpen /\ DoneIsFinished
  BY DEF FetchingIsOpen, DoneIsFinished
<1>4. RemainingCounts
  BY DEF RemainingCounts
<1>5. NonePassedOver
  BY DEF NonePassedOver, ToCome, Upcoming, AsksSync, Position
<1>6. QED
  BY <1>1, <1>2, <1>3, <1>4, <1>5 DEF ScanInv

\* Appending a version to the stream adds its row to the rows delivered.
LEMMA AppendDelivers ==
    ASSUME out \in Seq(Version), NEW v \in Version, out' = Append(out, v)
    PROVE  /\ Len(out') = Len(out) + 1
           /\ Delivered' = Delivered \cup {v.id}
           /\ \A i \in DOMAIN out' : out'[i] = v \/ \E j \in DOMAIN out : out'[i] = out[j]
<1>1. /\ DOMAIN out' = 1..(Len(out) + 1)
      /\ DOMAIN out = 1..Len(out)
      /\ Len(out) \in Nat
      /\ Len(out') = Len(out) + 1
  OBVIOUS
<1>2. \A i \in 1..Len(out) : out'[i] = out[i]
  OBVIOUS
<1>3. out'[Len(out) + 1] = v
  OBVIOUS
<1>4. \A i \in DOMAIN out' : i \in DOMAIN out \/ i = Len(out) + 1
  BY <1>1
<1>5. QED
  BY <1>1, <1>2, <1>3, <1>4 DEF Delivered

LEMMA NextScanInv == TypeOK /\ ScanInv /\ [Next]_vars => ScanInv'
<1> SUFFICES ASSUME TypeOK, ScanInv, [Next]_vars
             PROVE  ScanInv'
  OBVIOUS
<1> USE ScanAssumption
<1>1. ASSUME NEW r \in Rows, NEW alive \in BOOLEAN, Change(r, alive)
      PROVE  ScanInv'
  <2> USE <1>1
  <2>1. UNCHANGED <<handle, wire, vectors, phase>> /\ phase \notin Ended
    BY DEF Change
  <2>2. TableExposed'
    BY DEF Change, ScanInv, TableExposed, TypeOK
  <2>3. exposed \subseteq exposed' /\ stable' \subseteq stable
    BY DEF Change
  <2>4. StreamExposed'
    BY <2>1, <2>3 DEF ScanInv, StreamExposed, EmittedWasLive, Visible, wire, vectors
  <2>5. FetchingIsOpen' /\ DoneIsFinished' /\ RemainingCounts'
    BY <2>1 DEF ScanInv, FetchingIsOpen, DoneIsFinished, RemainingCounts, LimitReached,
                handle, vectors
  <2>6. ASSUME NEW q
        PROVE  /\ Position(q)'.kind = Position(q).kind
               /\ Position(q)'.after = Position(q).after
    BY DEF Position
  <2>7. Upcoming' = Upcoming
    BY <2>1 DEF Upcoming, AsksSync, handle
  <2>8. \A s \in stable' : ToCome(s) => ToCome(s)'
    BY <2>1, <2>6, <2>7 DEF ToCome, handle, wire, Position
  <2>9. NonePassedOver'
    BY <2>1, <2>3, <2>8 DEF ScanInv, NonePassedOver, Delivered, Ended, vectors
  <2>10. QED
    BY <2>2, <2>4, <2>5, <2>9 DEF ScanInv
<1>2. CASE ScanCall
  <2> USE <1>2
  <2>1. UNCHANGED <<server, handle, wire, rows, scan_finished, remaining_rows, out>>
        /\ phase = "idle" /\ phase' = IF scan_finished /\ rows = {} THEN "done" ELSE "filling"
    BY DEF ScanCall
  <2>2. TableExposed' /\ StreamExposed'
    BY <2>1 DEF ScanInv, TableExposed, StreamExposed, EmittedWasLive, Visible, server, wire
  <2>3. FetchingIsOpen' /\ DoneIsFinished' /\ RemainingCounts'
    BY <2>1 DEF ScanInv, FetchingIsOpen, DoneIsFinished, RemainingCounts, LimitReached, handle
  <2>4. \A s \in stable : ToCome(s) => ToCome(s)'
    BY <2>1 DEF ToCome, Upcoming, AsksSync, Position, handle, server
  <2>5. NonePassedOver'
    BY <2>1, <2>4 DEF ScanInv, NonePassedOver, Delivered, server
  <2>6. QED
    BY <2>2, <2>3, <2>5 DEF ScanInv
<1>3. CASE EmitRow
  <2> USE <1>3
  <2>1. PICK v \in rows : rows' = rows \ {v} /\ out' = Append(out, v)
    BY DEF EmitRow
  <2>2. UNCHANGED <<server, handle, wire>> /\ phase = "filling" /\ phase' \in {"idle", "filling"}
    BY DEF EmitRow
  <2>3. /\ Len(out') = Len(out) + 1 /\ Len(out) \in Nat
        /\ Delivered' = Delivered \cup {v.id}
        /\ \A i \in DOMAIN out' : out'[i] = v \/ \E j \in DOMAIN out : out'[i] = out[j]
    BY <2>1, AppendDelivers DEF TypeOK
  <2>4. TableExposed' /\ StreamExposed'
    BY <2>1, <2>2, <2>3 DEF ScanInv, TableExposed, StreamExposed, EmittedWasLive, Visible,
                            server, wire
  <2>5. RemainingCounts'
    BY <2>3 DEF EmitRow, Countdown, ScanInv, RemainingCounts
  <2>6. scan_finished' => finished' \/ LimitReached'
    <3>1. scan_finished' = (scan_finished \/ HitsLimit)
      BY DEF EmitRow
    <3>2. LimitReached \/ HitsLimit => LimitReached'
      BY <2>3 DEF HitsLimit, ScanInv, RemainingCounts, LimitReached
    <3>3. scan_finished => finished' \/ LimitReached
      BY <2>2 DEF ScanInv, DoneIsFinished, handle
    <3>4. QED
      BY <3>1, <3>2, <3>3
  <2>7. FetchingIsOpen' /\ DoneIsFinished'
    <3>1. (finished => scan_finished) /\ UNCHANGED finished
      BY <2>2 DEF ScanInv, DoneIsFinished, handle
    <3>2. scan_finished => scan_finished'
      BY DEF EmitRow
    <3>3. QED
      BY <2>2, <2>6, <3>1, <3>2 DEF FetchingIsOpen, DoneIsFinished
  <2>8. \A s \in stable : ToCome(s) => ToCome(s)'
    BY <2>2 DEF ToCome, Upcoming, AsksSync, Position, handle, server
  <2>9. NonePassedOver'
    BY <2>1, <2>2, <2>3, <2>8 DEF ScanInv, NonePassedOver, server
  <2>10. QED
    BY <2>4, <2>5, <2>7, <2>9 DEF ScanInv
<1>4. CASE ReturnChunk
  <2> USE <1>4
  <2>1. UNCHANGED <<server, handle, wire, vectors>>
        /\ phase = "filling" /\ phase' \in {"idle", "done"}
        /\ (phase' = "done" => rows = {} /\ scan_finished)
    BY DEF ReturnChunk
  <2>2. TableExposed' /\ StreamExposed'
    BY <2>1 DEF ScanInv, TableExposed, StreamExposed, EmittedWasLive, Visible, server, wire, vectors
  <2>3. FetchingIsOpen' /\ DoneIsFinished' /\ RemainingCounts'
    BY <2>1 DEF ScanInv, FetchingIsOpen, DoneIsFinished, RemainingCounts, LimitReached,
                handle, vectors
  <2>4. \A s \in stable : ToCome(s) => ToCome(s)'
    BY <2>1 DEF ToCome, Upcoming, AsksSync, Position, handle, server
  <2>5. NonePassedOver'
    BY <2>1, <2>4 DEF ScanInv, NonePassedOver, Delivered, server, vectors
  <2>6. QED
    BY <2>2, <2>3, <2>5 DEF ScanInv
<1>5. CASE SendRequest
  <2> USE <1>5
  <2>1. UNCHANGED <<server, finished, response, synced, vectors>>
        /\ phase \in {"filling", "requesting"} /\ phase' = "sent" /\ request' = Upcoming
    BY DEF SendRequest, NeedsBatch, Upcoming
  <2>2. TableExposed' /\ StreamExposed'
    BY <2>1 DEF ScanInv, TableExposed, StreamExposed, EmittedWasLive, Visible, server, vectors
  <2>3. rows = {} /\ ~scan_finished /\ ~finished
    BY DEF SendRequest, NeedsBatch, ScanInv, FetchingIsOpen, DoneIsFinished
  <2>4. FetchingIsOpen' /\ DoneIsFinished' /\ RemainingCounts'
    BY <2>1, <2>3 DEF ScanInv, FetchingIsOpen, DoneIsFinished, RemainingCounts, LimitReached, vectors
  <2>5. \A s \in stable : ToCome(s) => ToCome(s)'
    BY <2>1 DEF ToCome, Position, server
  <2>6. NonePassedOver'
    BY <2>1, <2>5 DEF ScanInv, NonePassedOver, Delivered, server, vectors
  <2>7. QED
    BY <2>2, <2>4, <2>6 DEF ScanInv
<1>6. CASE Serve
  <2> USE <1>6
  <2> DEFINE t == Position(request)
  <2>1. UNCHANGED <<server, handle, request, vectors>> /\ phase = "sent" /\ phase' = "served"
    BY DEF Serve
  <2>2. PICK upto \in (t.after + 1)..(NRows + 1), tombstones \in BOOLEAN, offered \in OffersSync :
          response' = [entries |-> {Entry(r) : r \in Page(t, upto, tombstones)},
                       page |-> IF upto > NRows THEN NoToken ELSE [t EXCEPT !.after = upto],
                       sync |-> IF offered THEN SyncToken(t) ELSE NoToken]
    BY DEF Serve
  <2>3. t \in PageToken
    BY PositionType DEF TypeOK
  <2> HIDE DEF t
  <2>4. upto \in Nat /\ t.after \in Nat
    BY <2>3 DEF PageToken
  <2>5. Visible(response'.entries) \subseteq exposed
    <3> SUFFICES ASSUME NEW r \in Page(t, upto, tombstones), ~Entry(r).deleted
                 PROVE  [id |-> Entry(r).id, stamp |-> Entry(r).stamp] \in exposed
      BY <2>2 DEF Visible
    <3>1. r \in Rows /\ live[r]
      BY DEF Page, Entry
    <3>2. Entry(r).id = r /\ Entry(r).stamp = stamp[r]
      BY DEF Entry
    <3>3. QED
      BY <3>1, <3>2 DEF ScanInv, TableExposed
  <2>6. TableExposed' /\ StreamExposed'
    BY <2>1, <2>5 DEF ScanInv, TableExposed, StreamExposed, EmittedWasLive, Visible, server, vectors
  <2>7. FetchingIsOpen' /\ DoneIsFinished' /\ RemainingCounts'
    BY <2>1 DEF ScanInv, FetchingIsOpen, DoneIsFinished, RemainingCounts, LimitReached,
                handle, vectors
  <2>8. ASSUME NEW s \in stable, t.kind = "list", t.after < s
        PROVE  \/ \E e \in response'.entries : e.id = s /\ ~e.deleted
               \/ /\ response'.page # NoToken
                  /\ response'.page.kind = "list"
                  /\ response'.page.after < s
    <3>1. s \in Rows /\ live[s]
      BY DEF ScanInv, TableExposed, TypeOK
    <3>2. CASE s <= upto
      <4>1. s \in Page(t, upto, tombstones)
        BY <2>8, <3>1, <3>2 DEF Page
      <4>2. Entry(s) \in response'.entries
        BY <2>2, <4>1
      <4>3. Entry(s).id = s /\ ~Entry(s).deleted
        BY <3>1 DEF Entry
      <4>4. QED
        BY <4>2, <4>3
    <3>3. CASE upto < s
      <4>1. ~(upto > NRows)
        BY <2>4, <3>1, <3>3
      <4>2. response'.page = [t EXCEPT !.after = upto]
        BY <2>2, <4>1
      <4>3. response'.page \in PageToken /\ response'.page.kind = "list" /\ response'.page.after = upto
        BY <2>3, <2>4, <2>8, <4>1, <4>2 DEF PageToken
      <4>4. NoToken \notin PageToken
        BY NoTokenAssumption DEF PageToken
      <4>5. QED
        BY <3>3, <4>3, <4>4
    <3>4. QED
      BY <2>4, <3>1, <3>2, <3>3
  <2>9. \A s \in stable : ToCome(s) => ToCome(s)'
    BY <2>1, <2>8 DEF ToCome, t
  <2>10. NonePassedOver'
    BY <2>1, <2>9 DEF ScanInv, NonePassedOver, Delivered, server, vectors
  <2>11. QED
    BY <2>6, <2>7, <2>10 DEF ScanInv
<1>7. CASE HandleResponse
  <2> USE <1>7
  <2> DEFINE visible == Visible(response.entries)
  <2>1. /\ UNCHANGED <<server, sync_check_done, remaining_rows, out_row, out>>
        /\ phase = "served" /\ phase' \in {"filling", "requesting"}
        /\ next_page_token' = response.page /\ next_sync_token' = response.sync
        /\ finished' = IsLast(response) /\ response' = NoResponse
    BY DEF HandleResponse
  <2>2. rows = {} /\ ~finished /\ ~scan_finished
    BY <2>1 DEF ScanInv, FetchingIsOpen
  <2>3. rows' = visible
    BY <2>2 DEF HandleResponse
  <2>4. scan_finished' = finished' /\ (phase' = "requesting" => rows' = {} /\ ~finished')
    <3>1. IsLast(response) \in BOOLEAN
      BY DEF IsLast, TypeOK
    <3>2. CASE visible # {} \/ finished'
      BY <3>2 DEF HandleResponse
    <3>3. CASE visible = {} /\ ~finished'
      <4>1. scan_finished' = scan_finished /\ rows' = rows
        BY <3>3 DEF HandleResponse
      <4>2. QED
        BY <2>1, <2>2, <3>1, <3>3, <4>1 DEF TypeOK
    <3>4. QED
      BY <3>2, <3>3
  <2>5. TableExposed'
    BY <2>1 DEF ScanInv, TableExposed, server
  <2>6. StreamExposed'
    BY <2>1, <2>3 DEF ScanInv, StreamExposed, EmittedWasLive, Visible, NoResponse, server
  <2>7. FetchingIsOpen' /\ DoneIsFinished' /\ RemainingCounts'
    BY <2>1, <2>4 DEF ScanInv, FetchingIsOpen, DoneIsFinished, RemainingCounts
  <2>8. ASSUME NEW s \in stable, ToCome(s)
        PROVE  (\E v \in rows' : v.id = s) \/ ToCome(s)'
    <3>1. CASE \E e \in response.entries : e.id = s /\ ~e.deleted
      <4>1. \E v \in visible : v.id = s
        <5>1. PICK e \in response.entries : e.id = s /\ ~e.deleted
          BY <3>1
        <5>2. [id |-> e.id, stamp |-> e.stamp] \in visible
          BY <5>1 DEF Visible
        <5>3. QED
          BY <5>1, <5>2
      <4>2. QED
        BY <2>3, <4>1
    <3>2. CASE response.page # NoToken /\ response.page.kind = "list" /\ response.page.after < s
      <4>1. ~finished'
        BY <2>1, <3>2 DEF IsLast
      <4>2. Position(Upcoming)' = response.page
        BY <2>1, <3>2 DEF Position, Upcoming
      <4>3. QED
        BY <2>1, <3>2, <4>1, <4>2 DEF ToCome
    <3>3. QED
      BY <2>1, <2>8, <3>1, <3>2 DEF ToCome
  <2>9. NonePassedOver'
    BY <2>1, <2>2, <2>8 DEF ScanInv, NonePassedOver, Delivered, server
  <2>10. QED
    BY <2>5, <2>6, <2>7, <2>9 DEF ScanInv
<1>8. CASE Fail \/ Close
  <2> USE <1>8
  <2>1. UNCHANGED <<server, handle, wire, vectors>> /\ phase' \in {"failed", "closed"}
        /\ (phase' = "closed" => phase = "idle")
    BY DEF Fail, Close
  <2>2. TableExposed' /\ StreamExposed'
    BY <2>1 DEF ScanInv, TableExposed, StreamExposed, EmittedWasLive, Visible, server, wire, vectors
  <2>3. FetchingIsOpen' /\ DoneIsFinished' /\ RemainingCounts'
    BY <2>1 DEF ScanInv, FetchingIsOpen, DoneIsFinished, RemainingCounts, LimitReached,
                handle, vectors
  <2>4. phase' = "closed" => \A s \in stable : ToCome(s) => ToCome(s)'
    BY <2>1 DEF ToCome, Upcoming, AsksSync, Position, handle, server
  <2>5. NonePassedOver'
    BY <2>1, <2>4 DEF ScanInv, NonePassedOver, Delivered, server, vectors
  <2>6. QED
    BY <2>2, <2>3, <2>5 DEF ScanInv
<1>9. CASE Over \/ UNCHANGED vars
  <2>1. UNCHANGED vars
    BY <1>9 DEF Over
  <2>2. TableExposed' /\ StreamExposed'
    BY <2>1 DEF ScanInv, TableExposed, StreamExposed, EmittedWasLive, Visible,
                vars, server, wire, vectors
  <2>3. FetchingIsOpen' /\ DoneIsFinished' /\ RemainingCounts'
    BY <2>1 DEF ScanInv, FetchingIsOpen, DoneIsFinished, RemainingCounts, LimitReached,
                vars, handle, vectors
  <2>4. \A s \in stable : ToCome(s) => ToCome(s)'
    BY <2>1 DEF ToCome, Upcoming, AsksSync, Position, vars, handle, wire, server
  <2>5. NonePassedOver'
    BY <2>1, <2>4 DEF ScanInv, NonePassedOver, Delivered, vars, server, vectors
  <2>6. QED
    BY <2>2, <2>3, <2>5 DEF ScanInv
<1>10. QED
  BY <1>1, <1>2, <1>3, <1>4, <1>5, <1>6, <1>7, <1>8, <1>9 DEF Next, Scan

\* The invariant holds throughout every scan.
THEOREM ScanInvariant == Spec => []ScanInv
<1>1. Spec => []TypeOK
  BY TypeCorrect
<1>2. QED
  BY <1>1, InitScanInv, NextScanInv, PTL DEF Spec

-----------------------------------------------------------------------------
(* What follows from it.                                                   *)

\* Every version that a scan puts into an output vector was in the table at some
\* moment of the scan: no deleted row and no row that never was.
THEOREM OnlyLiveRows == Spec => []EmittedWasLive
<1>1. ScanInv => EmittedWasLive
  BY DEF ScanInv, StreamExposed
<1>2. QED
  BY <1>1, ScanInvariant, PTL

LEMMA DoneIsComplete == ScanInv => NoLostRow
<1> SUFFICES ASSUME ScanInv, phase = "done", ~LimitReached
             PROVE  stable \subseteq Delivered
  BY DEF NoLostRow
<1>1. rows = {} /\ finished
  BY DEF ScanInv, DoneIsFinished
<1>2. \A r \in stable : r \in Delivered \/ (\E v \in rows : v.id = r) \/ ToCome(r)
  BY DEF ScanInv, NonePassedOver
<1>3. \A r \in stable : ~ToCome(r)
  BY <1>1 DEF ToCome
<1>4. QED
  BY <1>1, <1>2, <1>3

\* A scan that ends normally has delivered every row that stayed in the table, or
\* as many rows as the query's pushed limit asked for.
THEOREM NothingLost == Spec => []NoLostRow
<1>1. QED
  BY DoneIsComplete, ScanInvariant, PTL

\* CodaScan implements RowStream: an edit is Edit, a deletion Remove, a row put
\* into a vector Deliver, the empty vector that ends the scan Finish, an error or
\* an early close Stop; everything else is invisible.
THEOREM Implementation == Spec => ImplementsRowStream
<1>1. Init => Stream!Init
  <2> SUFFICES ASSUME Init PROVE Stream!Init
    OBVIOUS
  <2>1. exposed \in SUBSET [id : Rows, stamp : {0}]
    BY DEF Init
  <2>2. stable = {v.id : v \in exposed}
    <3>1. \A r \in Rows : live[r] => [id |-> r, stamp |-> 0] \in exposed
      BY DEF Init
    <3>2. stable \subseteq {v.id : v \in exposed}
      <4> SUFFICES ASSUME NEW r \in stable PROVE \E v \in exposed : v.id = r
        OBVIOUS
      <4>1. [id |-> r, stamp |-> 0] \in exposed /\ [id |-> r, stamp |-> 0].id = r
        BY <3>1 DEF Init
      <4>2. QED
        BY <4>1
    <3>3. {v.id : v \in exposed} \subseteq stable
      BY DEF Init
    <3>4. QED
      BY <3>2, <3>3
  <2>3. out = <<>> /\ outcome = "open"
    BY DEF Init, outcome, Ended
  <2>4. QED
    BY <2>1, <2>2, <2>3 DEF Stream!Init
<1>2. TypeOK /\ ScanInv /\ NoLostRow' /\ [Next]_vars => [Stream!Next]_Stream!vars
  <2> SUFFICES ASSUME TypeOK, ScanInv, NoLostRow', [Next]_vars
               PROVE  Stream!Next \/ UNCHANGED Stream!vars
    OBVIOUS
  <2> USE DEF Ended, outcome
  <2>1. ASSUME NEW r \in Rows, NEW alive \in BOOLEAN, Change(r, alive)
        PROVE  Stream!Next
    <3>1. UNCHANGED <<out, outcome>>
      BY <2>1 DEF Change, vectors
    <3>2. CASE alive
      <4> DEFINE v == [id |-> r, stamp |-> clock + 1]
      <4>1. v \in Stream!Version /\ exposed' = exposed \cup {v} /\ stable' = stable
        BY <2>1, <3>2 DEF Change, Stream!Version, TypeOK
      <4>2. Stream!Edit
        BY <3>1, <4>1 DEF Stream!Edit
      <4>3. QED
        BY <4>2 DEF Stream!Next
    <3>3. CASE ~alive
      <4>1. Stream!Remove(r)
        BY <2>1, <3>1, <3>3 DEF Change, Stream!Remove
      <4>2. QED
        BY <4>1 DEF Stream!Next
    <3>4. QED
      BY <3>2, <3>3
  <2>2. ASSUME UNCHANGED <<exposed, stable, out>>, phase \notin Ended, phase' = "done"
        PROVE  Stream!Next
    <3>1. stable \subseteq Stream!Delivered \/ (PushedLimit > 0 /\ Len(out) >= PushedLimit)
      BY <2>2 DEF NoLostRow, Delivered, Stream!Delivered, LimitReached
    <3>2. Stream!Finish
      BY <2>2, <3>1 DEF Stream!Finish
    <3>3. QED
      BY <3>2 DEF Stream!Next
  <2>3. CASE ScanCall \/ ReturnChunk
    <3>1. UNCHANGED <<exposed, stable, out>> /\ phase \notin Ended /\ phase' \in {"filling", "idle", "done"}
      BY <2>3 DEF ScanCall, ReturnChunk, server, vectors
    <3>2. QED
      BY <2>2, <3>1 DEF Stream!vars
  <2>4. CASE EmitRow
    <3>1. PICK v \in rows : out' = Append(out, v)
      BY <2>4 DEF EmitRow
    <3>2. v \in exposed
      BY DEF ScanInv, StreamExposed
    <3>3. UNCHANGED <<exposed, stable, outcome>> /\ outcome = "open"
      BY <2>4 DEF EmitRow, server
    <3>4. Stream!Deliver(v)
      BY <3>1, <3>2, <3>3 DEF Stream!Deliver
    <3>5. QED
      BY <3>2, <3>4 DEF Stream!Next
  <2>5. CASE SendRequest \/ Serve \/ HandleResponse \/ Over \/ UNCHANGED vars
    BY <2>5 DEF SendRequest, NeedsBatch, Serve, HandleResponse, Over, vars, server, vectors,
                Stream!vars
  <2>6. CASE Fail \/ Close
    <3>1. Stream!Stop
      BY <2>6 DEF Fail, Close, Stream!Stop, server, vectors
    <3>2. QED
      BY <3>1 DEF Stream!Next
  <2>7. QED
    BY <2>1, <2>3, <2>4, <2>5, <2>6 DEF Next, Scan
<1>3. QED
  BY <1>1, <1>2, TypeCorrect, ScanInvariant, NothingLost, PTL DEF Spec, Stream!Spec, ImplementsRowStream
-----------------------------------------------------------------------------
(* The server's dates, and the page tokens in the hands of the scan.       *)

Asked   == {"sent", "served"}
Resting == {"idle", "filling", "requesting", "done", "closed"}

\* Where the request in flight goes on.
From == Position(request)

\* A version is never newer than its row, nor a row than the clock.
Dated ==
    /\ \A r \in Rows : stamp[r] <= clock
    /\ \A v \in exposed : v.stamp <= stamp[v.id]

\* A batch has one version of a row.
OnePerRow ==
    /\ \A v, w \in rows : v.id = w.id => v = w
    /\ \A e, f \in response.entries : e.id = f.id => e = f

\* The scan lists before its sync check and lists changes from then on; a
\* listing starts anew only before anything was delivered.
TokensFollow ==
    /\ phase \in Asked => (From.kind = "delta" <=> sync_check_done)
    /\ phase \in Resting /\ next_page_token # NoToken
          => (next_page_token.kind = "delta" <=> sync_check_done)
    /\ phase \in Resting /\ ~finished /\ next_page_token = NoToken /\ ~AsksSync
          => ~sync_check_done /\ rows = {} /\ out = <<>>

\* What a response holds lies between the token asked with and the token given.
Answered ==
    phase = "served" =>
        /\ \A e \in response.entries :
              From.after < e.id /\ (sync_check_done => From.since < e.stamp)
        /\ response.page # NoToken =>
              /\ response.page.kind = From.kind
              /\ From.after <= response.page.after
              /\ sync_check_done => response.page.since = From.since
              /\ \A e \in response.entries : e.id <= response.page.after

WireInv == Dated /\ OnePerRow /\ TokensFollow /\ Answered

(* The first n rows of the output come from the listing, the others from   *)
(* the sync check.                                                         *)

\* The rows delivered by the listing that goes on now.
Now(n) == IF sync_check_done THEN (n + 1)..Len(out) ELSE 1..Len(out)

Ordered(n) ==
    /\ ~sync_check_done => n = Len(out)
    /\ \A i, j \in 1..n : i < j => out[i].id < out[j].id
    /\ \A i, j \in (n + 1)..Len(out) : i < j => out[i].id < out[j].id
    /\ \A i \in (n + 1)..Len(out) : out[i].stamp > 0

\* What is to come lies behind what is delivered.
Ahead(n) ==
    /\ \A i \in Now(n), v \in rows : out[i].id < v.id
    /\ phase \in Asked => \A i \in Now(n) : out[i].id <= From.after
    /\ phase \in Resting /\ next_page_token # NoToken =>
          /\ \A i \in Now(n) : out[i].id <= next_page_token.after
          /\ \A v \in rows : v.id <= next_page_token.after

\* What is to come is not older than what is delivered.
Newer ==
    /\ sync_check_done => \A v \in rows : v.stamp > 0
    /\ \A i \in 1..Len(out) :
          /\ \A v \in rows : out[i].id = v.id => out[i].stamp <= v.stamp
          /\ phase = "served" =>
                \A e \in response.entries : out[i].id = e.id => out[i].stamp <= e.stamp
          /\ \A j \in 1..Len(out) : i < j /\ out[i].id = out[j].id => out[i].stamp <= out[j].stamp

\* When sync tokens date from the page they came with: the sync check lists what
\* changed after everything that the listing delivered.
Behind(n) ==
    ~SyncFromListing =>
        /\ phase \in Resting /\ AsksSync =>
              /\ \A i \in 1..Len(out) : out[i].stamp <= next_sync_token
              /\ \A v \in rows : v.stamp <= next_sync_token
        /\ phase = "served" /\ ~sync_check_done /\ response.sync # NoToken =>
              /\ \A i \in 1..Len(out) : out[i].stamp <= response.sync
              /\ \A e \in response.entries : e.stamp <= response.sync
        /\ phase \in Asked /\ sync_check_done => \A i \in 1..n : out[i].stamp <= From.since
        /\ phase \in Resting /\ sync_check_done /\ next_page_token # NoToken =>
              \A i \in 1..n : out[i].stamp <= next_page_token.since
        /\ sync_check_done => \A i \in 1..n, v \in rows : out[i].stamp < v.stamp
        /\ \A i \in 1..n, j \in (n + 1)..Len(out) : out[i].stamp < out[j].stamp

Staged(n) == Ordered(n) /\ Ahead(n) /\ Behind(n)

OrderInv == WireInv /\ Newer /\ \E n \in 0..Len(out) : Staged(n)
-----------------------------------------------------------------------------
(* It is inductive.                                                        *)

LEMMA OutputType ==
    ASSUME TypeOK
    PROVE  /\ Len(out) \in Nat /\ DOMAIN out = 1..Len(out)
           /\ \A i \in 1..Len(out) : out[i] \in Version /\ out[i].id \in Nat /\ out[i].stamp \in Nat
<1>1. out \in Seq(Version)
  BY DEF TypeOK
<1>2. Len(out) \in Nat /\ DOMAIN out = 1..Len(out) /\ \A i \in 1..Len(out) : out[i] \in Version
  BY <1>1
<1>3. \A v \in Version : v.id \in Nat /\ v.stamp \in Nat
  BY DEF Version, Rows
<1>4. QED
  BY <1>2, <1>3

LEMMA InitOrder == Init => OrderInv
<1> SUFFICES ASSUME Init PROVE OrderInv
  OBVIOUS
<1> USE DEF Init
<1>1. exposed \subseteq [id : Rows, stamp : {0}]
  OBVIOUS
<1>2. WireInv
  BY <1>1 DEF WireInv, Dated, OnePerRow, TokensFollow, Answered, NoResponse, AsksSync, Rows, Asked, Resting
<1>3. Len(out) = 0
  OBVIOUS
<1>4. Newer /\ Staged(0) /\ 0 \in 0..Len(out)
  BY <1>3 DEF Newer, Staged, Ordered, Ahead, Behind, Now, NoResponse, AsksSync
<1>5. QED
  BY <1>2, <1>4 DEF OrderInv

LEMMA ChangeKeepsOrder ==
    ASSUME TypeOK, ScanInv, OrderInv, NEW r \in Rows, NEW alive \in BOOLEAN, Change(r, alive)
    PROVE  OrderInv'
<1>1. /\ UNCHANGED <<handle, wire, vectors, phase>> /\ clock' = clock + 1 /\ clock \in Nat
      /\ stamp' = [stamp EXCEPT ![r] = clock + 1] /\ stamp \in [Rows -> Nat]
      /\ exposed' \subseteq exposed \cup {[id |-> r, stamp |-> clock + 1]}
      /\ exposed \subseteq Version
  BY DEF Change, TypeOK
<1>2. UNCHANGED <<next_page_token, next_sync_token, sync_check_done, finished, request, response,
                  rows, out, phase>>
  BY <1>1 DEF handle, wire, vectors
<1>3. Dated'
  <2>1. \A s \in Rows : stamp'[s] <= clock'
    BY <1>1 DEF OrderInv, WireInv, Dated
  <2>2. \A v \in exposed : v.id \in Rows /\ v.stamp \in Nat /\ v.stamp <= stamp[v.id] /\ stamp[v.id] <= clock
    BY <1>1 DEF OrderInv, WireInv, Dated, Version
  <2>3. \A v \in exposed : v.stamp <= stamp'[v.id]
    BY <1>1, <2>2
  <2>4. QED
    BY <1>1, <2>1, <2>3 DEF Dated
<1>4. /\ From'.kind = From.kind /\ From'.after = From.after
      /\ From.kind = "delta" => From'.since = From.since
  BY <1>2 DEF From, Position
<1>5. OnePerRow' /\ TokensFollow'
  BY <1>2, <1>4 DEF OrderInv, WireInv, OnePerRow, TokensFollow, AsksSync
<1>6. Answered'
  BY <1>2, <1>4 DEF OrderInv, WireInv, TokensFollow, Answered, Asked
<1>7. Newer'
  BY <1>2 DEF OrderInv, Newer
<1>8. \A n : Staged(n) => Staged(n)'
  BY <1>2, <1>4 DEF OrderInv, WireInv, TokensFollow, Staged, Ordered, Ahead, Behind, Now, AsksSync, Asked
<1>9. QED
  BY <1>2, <1>3, <1>5, <1>6, <1>7, <1>8 DEF OrderInv, WireInv

\* Steps that only change where the scan is.
LEMMA QuietKeepsOrder ==
    ASSUME OrderInv, UNCHANGED <<server, handle, wire, rows, out>>,
           phase' = phase \/ (phase' \notin Asked /\ (phase' \in Resting => phase \in Resting))
    PROVE  OrderInv'
<1>1. UNCHANGED <<stamp, clock, exposed, next_page_token, next_sync_token, sync_check_done, finished,
                  request, response, rows, out>>
  BY DEF server, handle, wire
<1>2. From' = From
  BY <1>1 DEF From, Position
<1>3. WireInv'
  BY <1>1, <1>2 DEF OrderInv, WireInv, Dated, OnePerRow, TokensFollow, Answered, AsksSync, Asked
<1>4. Newer' /\ \A n : Staged(n) => Staged(n)'
  BY <1>1, <1>2 DEF OrderInv, Newer, Staged, Ordered, Ahead, Behind, Now, Asked, AsksSync
<1>5. QED
  BY <1>1, <1>3, <1>4 DEF OrderInv

LEMMA EmitKeepsOrder ==
    ASSUME TypeOK, ScanInv, OrderInv, EmitRow
    PROVE  OrderInv'
<1>1. PICK v \in rows : /\ \A w \in rows : v.id <= w.id
                        /\ rows' = rows \ {v} /\ out' = Append(out, v)
  BY DEF EmitRow
<1>2. /\ UNCHANGED <<server, handle, wire>> /\ phase = "filling"
      /\ phase' \in {"idle", "filling"}
  BY DEF EmitRow
<1>3. UNCHANGED <<stamp, clock, exposed, next_page_token, next_sync_token, sync_check_done, finished,
                  request, response>>
  BY <1>2 DEF server, handle, wire
<1>4. /\ Len(out) \in Nat /\ Len(out') = Len(out) + 1
      /\ out'[Len(out) + 1] = v
      /\ \A i \in 1..Len(out) : out'[i] = out[i]
  <2>1. out \in Seq(Version) /\ v \in Version
    BY DEF TypeOK
  <2>2. QED
    BY <1>1, <2>1
<1>5. \A w \in rows' : w \in rows /\ v.id < w.id
  <2>1. \A w \in rows : w.id \in Nat /\ v.id \in Nat
    BY DEF TypeOK, Version, Rows
  <2>2. \A w \in rows : w # v => w.id # v.id
    BY DEF OrderInv, WireInv, OnePerRow
  <2>3. QED
    BY <1>1, <2>1, <2>2
<1>6. WireInv'
  <2>1. OnePerRow' /\ Dated'
    BY <1>3, <1>5 DEF OrderInv, WireInv, OnePerRow, Dated
  <2>2. finished \/ next_page_token # NoToken \/ AsksSync
    BY <1>2 DEF OrderInv, WireInv, TokensFollow, Resting
  <2>3. TokensFollow'
    BY <1>2, <1>3, <2>2 DEF OrderInv, WireInv, TokensFollow, AsksSync, Asked, Resting
  <2>4. Answered'
    BY <1>2 DEF Answered
  <2>5. QED
    BY <2>1, <2>3, <2>4 DEF WireInv
<1>7. \A i \in 1..Len(out') : i \in 1..Len(out) \/ i = Len(out) + 1
  BY <1>4
<1>8. Newer'
  <2>1. \A w \in rows' : w \in rows /\ w.id # v.id
    <3>1. \A w \in rows : w.id \in Nat
      BY DEF TypeOK, Version, Rows
    <3>2. QED
      BY <1>5, <3>1
  <2>2. \A i \in 1..Len(out) : out[i].id = v.id => out[i].stamp <= v.stamp
    BY DEF OrderInv, Newer
  <2>3. \A i, j \in 1..Len(out') :
            i < j /\ out'[i].id = out'[j].id => out'[i].stamp <= out'[j].stamp
    <3> SUFFICES ASSUME NEW i \in 1..Len(out'), NEW j \in 1..Len(out'), i < j,
                        out'[i].id = out'[j].id
                 PROVE  out'[i].stamp <= out'[j].stamp
      OBVIOUS
    <3>1. i \in 1..Len(out)
      BY <1>4
    <3>2. CASE j \in 1..Len(out)
      BY <1>4, <3>1, <3>2 DEF OrderInv, Newer
    <3>3. CASE j = Len(out) + 1
      BY <1>4, <2>2, <3>1, <3>3
    <3>4. QED
      BY <1>7, <3>2, <3>3
  <2>4. \A i \in 1..Len(out'), w \in rows' : out'[i].id = w.id => out'[i].stamp <= w.stamp
    BY <1>4, <1>7, <2>1 DEF OrderInv, Newer
  <2>5. sync_check_done' => \A w \in rows' : w.stamp > 0
    BY <1>3, <2>1 DEF OrderInv, Newer
  <2>6. QED
    BY <1>2, <2>3, <2>4, <2>5 DEF Newer
<1>9. PICK n \in 0..Len(out) : Staged(n)
  BY DEF OrderInv
<1>10. \A i \in Now(n) : i \in 1..Len(out) /\ out[i].id < v.id
  BY <1>4, <1>9 DEF Staged, Ahead, Now
<1>11. next_page_token # NoToken => v.id <= next_page_token.after
  BY <1>2, <1>9 DEF Staged, Ahead, Resting
<1>12. CASE ~sync_check_done
  <2>0. PICK m \in Nat : m = Len(out) + 1
    BY <1>4
  <2>1. n = Len(out) /\ Now(n) = 1..Len(out) /\ Now(m)' = 1..m /\ m \in 0..Len(out') /\ m = Len(out')
    BY <2>0, <1>3, <1>4, <1>9, <1>12 DEF Staged, Ordered, Now
  <2>2. Ordered(m)'
    <3>1. (m + 1)..Len(out') = {}
      BY <1>4, <2>1
    <3>2. \A i, j \in 1..m : i < j => out'[i].id < out'[j].id
      <4> SUFFICES ASSUME NEW i \in 1..m, NEW j \in 1..m, i < j PROVE out'[i].id < out'[j].id
        OBVIOUS
      <4>1. i \in 1..Len(out)
        BY <1>4, <2>0
      <4>2. CASE j \in 1..Len(out)
        BY <1>4, <1>9, <2>1, <4>1, <4>2 DEF Staged, Ordered
      <4>3. CASE j = Len(out) + 1
        BY <1>4, <1>10, <2>1, <4>1, <4>3
      <4>4. QED
        BY <1>4, <2>0, <4>2, <4>3
    <3>3. QED
      BY <1>3, <2>1, <3>1, <3>2 DEF Ordered
  <2>3. \A i \in Now(m)' : out'[i].id = v.id \/ \E j \in Now(n) : out'[i] = out[j]
    BY <1>4, <2>0, <2>1
  <2>4. Ahead(m)'
    <3>1. \A i \in Now(n), w \in rows' : out[i].id < w.id
      BY <1>5, <1>9 DEF Staged, Ahead
    <3>2. \A i \in Now(m)', w \in rows' : out'[i].id < w.id
      BY <1>5, <2>3, <3>1
    <3>3. next_page_token # NoToken =>
             /\ \A i \in Now(m)' : out'[i].id <= next_page_token.after
             /\ \A w \in rows' : w.id <= next_page_token.after
      BY <1>2, <1>5, <1>9, <1>11, <2>3 DEF Staged, Ahead, Resting
    <3>4. QED
      BY <1>2, <1>3, <3>2, <3>3 DEF Ahead, Asked, Resting
  <2>5. Behind(m)'
    <3>1. (m + 1)..Len(out') = {}
      BY <1>4, <2>1
    <3>2. ~SyncFromListing /\ AsksSync =>
             /\ \A i \in 1..Len(out') : out'[i].stamp <= next_sync_token
             /\ \A w \in rows' : w.stamp <= next_sync_token
      BY <1>2, <1>4, <1>5, <1>7, <1>9 DEF Staged, Behind, Resting
    <3>3. QED
      BY <1>2, <1>3, <1>12, <3>1, <3>2 DEF Behind, AsksSync, Asked
  <2>6. QED
    BY <1>6, <1>8, <2>1, <2>2, <2>4, <2>5 DEF OrderInv, Staged
<1>13. CASE sync_check_done
  <2>1. Now(n) = (n + 1)..Len(out) /\ Now(n)' = (n + 1)..Len(out') /\ n \in 0..Len(out')
    BY <1>3, <1>4, <1>13 DEF Now
  <2>2. \A i \in Now(n)' : i \in Now(n) \/ i = Len(out) + 1
    BY <1>4, <2>1
  <2>3. Ordered(n)'
    <3>1. \A i, j \in 1..n : i < j => out'[i].id < out'[j].id
      BY <1>4, <1>9 DEF Staged, Ordered
    <3>2. \A i, j \in (n + 1)..Len(out') : i < j => out'[i].id < out'[j].id
      <4> SUFFICES ASSUME NEW i \in (n + 1)..Len(out'), NEW j \in (n + 1)..Len(out'), i < j
                   PROVE  out'[i].id < out'[j].id
        OBVIOUS
      <4>1. i \in Now(n) /\ i \in 1..Len(out)
        BY <1>4, <2>1
      <4>2. CASE j \in Now(n)
        BY <1>4, <1>9, <2>1, <4>1, <4>2 DEF Staged, Ordered
      <4>3. CASE j = Len(out) + 1
        BY <1>4, <1>10, <4>1, <4>3
      <4>4. QED
        BY <2>1, <2>2, <4>2, <4>3
    <3>3. \A i \in (n + 1)..Len(out') : out'[i].stamp > 0
      <4>1. v.stamp > 0
        BY <1>13 DEF OrderInv, Newer
      <4>2. QED
        BY <1>4, <1>9, <2>1, <2>2, <4>1 DEF Staged, Ordered
    <3>4. QED
      BY <1>3, <1>13, <3>1, <3>2, <3>3 DEF Ordered
  <2>4. \A i \in Now(n)' : out'[i].id = v.id \/ \E j \in Now(n) : out'[i] = out[j]
    BY <1>4, <1>10, <2>2
  <2>5. Ahead(n)'
    <3>1. \A i \in Now(n), w \in rows' : out[i].id < w.id
      BY <1>5, <1>9 DEF Staged, Ahead
    <3>2. \A i \in Now(n)', w \in rows' : out'[i].id < w.id
      BY <1>5, <2>4, <3>1
    <3>3. next_page_token # NoToken =>
             /\ \A i \in Now(n)' : out'[i].id <= next_page_token.after
             /\ \A w \in rows' : w.id <= next_page_token.after
      BY <1>2, <1>5, <1>9, <1>11, <2>4 DEF Staged, Ahead, Resting
    <3>4. QED
      BY <1>2, <1>3, <3>2, <3>3 DEF Ahead, Asked, Resting
  <2>6. Behind(n)'
    <3>1. ~AsksSync' /\ phase' \notin Asked /\ phase' # "served"
      BY <1>2, <1>3, <1>13 DEF AsksSync, Asked
    <3>2. \A i \in 1..n : out'[i] = out[i]
      BY <1>4
    <3>3. ~SyncFromListing =>
             /\ \A i \in 1..n, w \in rows : out[i].stamp < w.stamp
             /\ next_page_token # NoToken => \A i \in 1..n : out[i].stamp <= next_page_token.since
             /\ \A i \in 1..n, j \in (n + 1)..Len(out) : out[i].stamp < out[j].stamp
      BY <1>2, <1>9, <1>13 DEF Staged, Behind, Resting
    <3>4. ~SyncFromListing =>
             \A i \in 1..n, j \in (n + 1)..Len(out') : out'[i].stamp < out'[j].stamp
      BY <1>4, <2>1, <2>2, <3>2, <3>3
    <3>5. QED
      BY <1>3, <1>5, <3>1, <3>2, <3>3, <3>4 DEF Behind
  <2>7. QED
    BY <1>6, <1>8, <2>1, <2>3, <2>5, <2>6 DEF OrderInv, Staged
<1>14. QED
  BY <1>12, <1>13

LEMMA SendKeepsOrder ==
    ASSUME TypeOK, ScanInv, OrderInv, SendRequest
    PROVE  OrderInv'
<1>1. /\ UNCHANGED <<server, next_page_token, next_sync_token, finished, response, vectors>>
      /\ phase \in {"filling", "requesting"} /\ phase' = "sent" /\ request' = Upcoming
      /\ sync_check_done' = (sync_check_done \/ AsksSync)
  BY DEF SendRequest, NeedsBatch, Upcoming
<1>2. rows = {} /\ ~finished
  BY DEF SendRequest, NeedsBatch, ScanInv, FetchingIsOpen, DoneIsFinished
<1>3. UNCHANGED <<stamp, clock, exposed, rows, out>> /\ phase \in Resting
  BY <1>1 DEF server, vectors, Resting
<1>4. PICK n \in 0..Len(out) : Staged(n)
  BY DEF OrderInv
<1>5. Len(out) \in Nat /\ \A i \in 1..Len(out) : out[i].id \in Nat
  BY OutputType
<1>6. /\ From'.kind = "delta" <=> sync_check_done'
      /\ \A i \in Now(n)' : out[i].id <= From'.after
  <2>1. CASE next_page_token # NoToken
    <3>1. From' = next_page_token /\ sync_check_done' = sync_check_done
      BY <1>1, <2>1 DEF From, Position, Upcoming, AsksSync, TypeOK
    <3>2. Now(n)' = Now(n)
      BY <1>3, <3>1 DEF Now
    <3>3. QED
      BY <1>3, <1>4, <2>1, <3>1, <3>2 DEF OrderInv, WireInv, TokensFollow, Staged, Ahead
  <2>2. CASE AsksSync
    <3>1. From'.kind = "delta" /\ From'.after = 0
      BY <1>1, <2>2 DEF From, Position, Upcoming, AsksSync
    <3>2. n = Len(out)
      BY <1>4, <2>2 DEF AsksSync, Staged, Ordered
    <3>3. Now(n)' = {}
      <4>1. Now(n)' = (Len(out) + 1)..Len(out)
        BY <1>1, <1>3, <2>2, <3>2 DEF Now
      <4>2. (Len(out) + 1)..Len(out) = {}
        BY <1>5
      <4>3. QED
        BY <4>1, <4>2
    <3>4. QED
      BY <1>1, <2>2, <3>1, <3>3
  <2>3. CASE next_page_token = NoToken /\ ~AsksSync
    <3>1. ~sync_check_done /\ out = <<>>
      BY <1>2, <1>3, <2>3 DEF OrderInv, WireInv, TokensFollow
    <3>2. From'.kind = "list" /\ ~sync_check_done'
      BY <1>1, <2>3, <3>1 DEF From, Position, Upcoming
    <3>3. Now(n)' = 1..Len(out) /\ Len(out) = 0
      BY <1>3, <3>1, <3>2 DEF Now
    <3>4. QED
      BY <3>2, <3>3
  <2>4. QED
    BY <2>1, <2>2, <2>3
<1>7. WireInv'
  BY <1>1, <1>3, <1>6 DEF OrderInv, WireInv, Dated, OnePerRow, TokensFollow, Answered, Asked, Resting
<1>8. Newer'
  BY <1>1, <1>2, <1>3 DEF OrderInv, Newer
<1>9. Ordered(n)'
  BY <1>1, <1>3, <1>4 DEF Staged, Ordered
<1>10. Ahead(n)'
  BY <1>1, <1>2, <1>3, <1>6 DEF Ahead, Asked, Resting
<1>11. Behind(n)'
  <2>1. ~SyncFromListing /\ sync_check_done' => \A i \in 1..n : out[i].stamp <= From'.since
    <3>1. CASE next_page_token # NoToken
      <4>1. From' = next_page_token /\ sync_check_done' = sync_check_done
        BY <1>1, <3>1 DEF From, Position, Upcoming, AsksSync, TypeOK
      <4>2. QED
        BY <1>3, <1>4, <3>1, <4>1 DEF Staged, Behind
    <3>2. CASE AsksSync
      <4>1. From'.since = next_sync_token
        BY <1>1, <3>2 DEF From, Position, Upcoming, AsksSync
      <4>2. QED
        BY <1>3, <1>4, <1>5, <3>2, <4>1 DEF Staged, Behind
    <3>3. CASE next_page_token = NoToken /\ ~AsksSync
      BY <1>1, <1>2, <1>3, <3>3 DEF OrderInv, WireInv, TokensFollow
    <3>4. QED
      BY <3>1, <3>2, <3>3
  <2>2. ~SyncFromListing => \A i \in 1..n, j \in (n + 1)..Len(out) : out[i].stamp < out[j].stamp
    BY <1>4 DEF Staged, Behind
  <2>3. QED
    BY <1>1, <1>2, <1>3, <2>1, <2>2 DEF Behind, Resting
<1>12. QED
  BY <1>3, <1>7, <1>8, <1>9, <1>10, <1>11 DEF OrderInv, Staged

LEMMA ServeKeepsOrder ==
    ASSUME TypeOK, ScanInv, OrderInv, Serve
    PROVE  OrderInv'
<1>1. UNCHANGED <<server, handle, request, vectors>> /\ phase = "sent" /\ phase' = "served"
  BY DEF Serve
<1>2. PICK upto \in (From.after + 1)..(NRows + 1), tombstones \in BOOLEAN, offered \in OffersSync :
          response' = [entries |-> {Entry(r) : r \in Page(From, upto, tombstones)},
                       page |-> IF upto > NRows THEN NoToken ELSE [From EXCEPT !.after = upto],
                       sync |-> IF offered THEN SyncToken(From) ELSE NoToken]
  BY DEF Serve, From
<1>3. From \in PageToken
  BY PositionType DEF TypeOK, From
<1>4. UNCHANGED <<stamp, clock, exposed, next_page_token, next_sync_token, sync_check_done, finished,
                  rows, out>> /\ From' = From
  BY <1>1 DEF server, handle, vectors, From, Position
<1>5. \A e \in response'.entries :
         /\ e.id \in Rows /\ e.stamp = stamp[e.id] /\ From.after < e.id /\ e.id <= upto
         /\ sync_check_done => From.since < e.stamp
  <2> SUFFICES ASSUME NEW r \in Page(From, upto, tombstones)
               PROVE  /\ Entry(r).id \in Rows /\ Entry(r).stamp = stamp[Entry(r).id]
                      /\ From.after < Entry(r).id /\ Entry(r).id <= upto
                      /\ sync_check_done => From.since < Entry(r).stamp
    BY <1>2
  <2>1. r \in Rows /\ From.after < r /\ r <= upto
    BY DEF Page
  <2>2. Entry(r).id = r /\ Entry(r).stamp = stamp[r]
    BY DEF Entry
  <2>3. sync_check_done => From.kind = "delta"
    BY <1>1 DEF OrderInv, WireInv, TokensFollow, Asked
  <2>4. sync_check_done => From.since < stamp[r]
    BY <1>3, <2>3 DEF Page, PageToken, TypeOK
  <2>5. QED
    BY <2>1, <2>2, <2>4
<1>6. response'.page # NoToken =>
         /\ response'.page.kind = From.kind /\ response'.page.since = From.since
         /\ response'.page.after = upto
  BY <1>2, <1>3 DEF PageToken
<1>7. Answered'
  <2>1. From.after <= upto
    BY <1>3 DEF PageToken
  <2>2. QED
    BY <1>4, <1>5, <1>6, <2>1 DEF Answered
<1>8. \A e, f \in response'.entries : e.id = f.id => e = f
  <2>1. \A r \in Rows : Entry(r).id = r
    BY DEF Entry
  <2>2. QED
    BY <1>2, <2>1 DEF Page
<1>9. WireInv'
  BY <1>1, <1>4, <1>7, <1>8 DEF OrderInv, WireInv, Dated, OnePerRow, TokensFollow, Asked, Resting
<1>10. Newer'
  <2>1. \A i \in 1..Len(out) : out[i] \in exposed
    BY DEF ScanInv, StreamExposed, EmittedWasLive, TypeOK
  <2>2. \A i \in 1..Len(out) : out[i].stamp <= stamp[out[i].id]
    BY <2>1 DEF OrderInv, WireInv, Dated
  <2>3. QED
    BY <1>4, <1>5, <2>2 DEF OrderInv, Newer
<1>11. ~SyncFromListing /\ response'.sync # NoToken =>
          /\ \A i \in 1..Len(out) : out[i].stamp <= response'.sync
          /\ \A e \in response'.entries : e.stamp <= response'.sync
  <2>1. ~SyncFromListing /\ response'.sync # NoToken => response'.sync = clock
    BY <1>2 DEF SyncToken
  <2>2. \A e \in response'.entries : e.stamp <= clock
    BY <1>5 DEF OrderInv, WireInv, Dated
  <2>3. \A i \in 1..Len(out) : out[i] \in exposed /\ out[i].id \in Rows /\ out[i].stamp \in Nat
    BY OutputType DEF ScanInv, StreamExposed, EmittedWasLive, Version
  <2>4. \A i \in 1..Len(out) : out[i].stamp <= stamp[out[i].id] /\ stamp[out[i].id] <= clock
    BY <2>3 DEF OrderInv, WireInv, Dated
  <2>5. \A i \in 1..Len(out) : out[i].stamp <= clock
    BY <2>3, <2>4 DEF TypeOK
  <2>6. QED
    BY <2>1, <2>2, <2>5
<1>12. \A n : Staged(n) => Staged(n)'
  BY <1>1, <1>4, <1>11 DEF Staged, Ordered, Ahead, Behind, Now, Asked, Resting
<1>13. QED
  BY <1>4, <1>9, <1>10, <1>12 DEF OrderInv

LEMMA HandleKeepsOrder ==
    ASSUME TypeOK, ScanInv, OrderInv, HandleResponse
    PROVE  OrderInv'
<1>1. /\ UNCHANGED <<server, sync_check_done, request, out>>
      /\ phase = "served" /\ phase' \in {"filling", "requesting"}
      /\ next_page_token' = response.page /\ next_sync_token' = response.sync
      /\ finished' = IsLast(response) /\ response' = NoResponse
  BY DEF HandleResponse
<1>2. UNCHANGED <<stamp, clock, exposed>>
  BY <1>1 DEF server
<1>3. rows = {} /\ rows' = Visible(response.entries)
  <2>1. rows = {}
    BY <1>1 DEF ScanInv, FetchingIsOpen
  <2>2. QED
    BY <2>1 DEF HandleResponse
<1>4. \A v \in rows' : \E e \in response.entries : v.id = e.id /\ v.stamp = e.stamp
  BY <1>3 DEF Visible
<1>5. \A v, w \in rows' : v.id = w.id => v = w
  <2> SUFFICES ASSUME NEW v \in rows', NEW w \in rows', v.id = w.id PROVE v = w
    OBVIOUS
  <2>1. PICK e \in response.entries : v = [id |-> e.id, stamp |-> e.stamp]
    BY <1>3 DEF Visible
  <2>2. PICK f \in response.entries : w = [id |-> f.id, stamp |-> f.stamp]
    BY <1>3 DEF Visible
  <2>3. e = f
    BY <2>1, <2>2 DEF OrderInv, WireInv, OnePerRow
  <2>4. QED
    BY <2>1, <2>2, <2>3
<1>6. TokensFollow'
  <2>1. response.page # NoToken => (response.page.kind = "delta" <=> sync_check_done)
    BY <1>1 DEF OrderInv, WireInv, TokensFollow, Answered, Asked
  <2>2. ~finished' /\ response.page = NoToken => AsksSync'
    BY <1>1 DEF IsLast, AsksSync
  <2>3. QED
    BY <1>1, <2>1, <2>2 DEF TokensFollow, Asked, Resting
<1>7. WireInv'
  BY <1>1, <1>2, <1>5, <1>6 DEF OrderInv, WireInv, Dated, OnePerRow, Answered, NoResponse
<1>8. From \in PageToken /\ response \in Response
  BY PositionType DEF TypeOK, From
<1>9. Newer'
  <2>1. sync_check_done => \A v \in rows' : v.stamp > 0
    <3>1. \A e \in response.entries : e.stamp \in Nat /\ From.since \in Nat
      BY <1>8 DEF Response, PageToken
    <3>2. QED
      BY <1>1, <1>4, <3>1 DEF OrderInv, WireInv, Answered
  <2>2. \A i \in 1..Len(out), v \in rows' : out[i].id = v.id => out[i].stamp <= v.stamp
    BY <1>1, <1>4 DEF OrderInv, Newer
  <2>3. QED
    BY <1>1, <2>1, <2>2 DEF OrderInv, Newer
<1>10. PICK n \in 0..Len(out) : Staged(n)
  BY DEF OrderInv
<1>11. Ordered(n)'
  BY <1>1, <1>10 DEF Staged, Ordered
<1>12. Ahead(n)'
  <2>1. Now(n)' = Now(n)
    BY <1>1 DEF Now
  <2>2. \A i \in Now(n) : out[i].id <= From.after /\ out[i].id \in Nat
    <3>1. \A i \in Now(n) : i \in 1..Len(out)
      BY <1>10 DEF Now
    <3>2. QED
      BY <1>1, <1>10, <3>1, OutputType DEF Staged, Ahead, Asked
  <2>3. \A i \in Now(n), v \in rows' : out[i].id < v.id
    <3> SUFFICES ASSUME NEW i \in Now(n), NEW v \in rows' PROVE out[i].id < v.id
      OBVIOUS
    <3>1. PICK e \in response.entries : v.id = e.id
      BY <1>4
    <3>2. From.after < e.id /\ e.id \in Nat /\ From.after \in Nat
      BY <1>1, <1>8 DEF OrderInv, WireInv, Answered, Response, PageToken, Rows
    <3>3. QED
      BY <2>2, <3>1, <3>2
  <2>4. response.page # NoToken =>
           /\ \A i \in Now(n) : out[i].id <= response.page.after
           /\ \A v \in rows' : v.id <= response.page.after
    <3> SUFFICES ASSUME response.page # NoToken
                 PROVE  /\ \A i \in Now(n) : out[i].id <= response.page.after
                        /\ \A v \in rows' : v.id <= response.page.after
      OBVIOUS
    <3>1. From.after \in Nat /\ response.page.after \in Nat
      BY <1>8 DEF Response, PageToken
    <3>2. From.after <= response.page.after
      BY <1>1 DEF OrderInv, WireInv, Answered
    <3>3. \A e \in response.entries : e.id <= response.page.after
      BY <1>1 DEF OrderInv, WireInv, Answered
    <3>4. QED
      BY <1>4, <2>2, <3>1, <3>2, <3>3
  <2>5. QED
    BY <1>1, <2>1, <2>3, <2>4 DEF Ahead, Asked, Resting
<1>13. Behind(n)'
  <2>1. ~SyncFromListing /\ AsksSync' =>
           /\ \A i \in 1..Len(out) : out[i].stamp <= response.sync
           /\ \A v \in rows' : v.stamp <= response.sync
    BY <1>1, <1>4, <1>10 DEF Staged, Behind, AsksSync
  <2>2. ~SyncFromListing /\ sync_check_done =>
           /\ \A i \in 1..n : out[i].stamp <= From.since
           /\ response.page # NoToken => response.page.since = From.since
           /\ \A v \in rows' : From.since < v.stamp
    BY <1>1, <1>4, <1>10 DEF Staged, Behind, OrderInv, WireInv, Answered, Asked
  <2>3. \A i \in 1..n : out[i].stamp \in Nat
    BY <1>10, OutputType
  <2>4. From.since \in Nat /\ \A v \in rows' : v.stamp \in Nat
    BY <1>4, <1>8 DEF Response, PageToken
  <2>5. ~SyncFromListing /\ sync_check_done => \A i \in 1..n, v \in rows' : out[i].stamp < v.stamp
    BY <2>2, <2>3, <2>4
  <2>6. QED
    BY <1>1, <1>10, <2>1, <2>2, <2>5 DEF Staged, Behind, Asked
<1>14. QED
  BY <1>1, <1>7, <1>9, <1>10, <1>11, <1>12, <1>13 DEF OrderInv, Staged

LEMMA NextOrder == TypeOK /\ ScanInv /\ OrderInv /\ [Next]_vars => OrderInv'
<1> SUFFICES ASSUME TypeOK, ScanInv, OrderInv, [Next]_vars PROVE OrderInv'
  OBVIOUS
<1>1. ASSUME NEW r \in Rows, NEW alive \in BOOLEAN, Change(r, alive) PROVE OrderInv'
  BY <1>1, ChangeKeepsOrder
<1>2. CASE ScanCall \/ ReturnChunk \/ Fail \/ Close
  <2>1. UNCHANGED <<server, handle, wire, rows, out>> /\ phase' \notin Asked
    BY <1>2 DEF ScanCall, ReturnChunk, Fail, Close, vectors, Asked
  <2>2. phase' \in Resting => phase \in Resting
    BY <1>2 DEF ScanCall, ReturnChunk, Fail, Close, Resting
  <2>3. QED
    BY <2>1, <2>2, QuietKeepsOrder
<1>3. CASE Over \/ UNCHANGED vars
  <2>1. UNCHANGED <<server, handle, wire, rows, out, phase>>
    BY <1>3 DEF Over, vars, vectors
  <2>2. QED
    BY <2>1, QuietKeepsOrder
<1>4. QED
  BY <1>1, <1>2, <1>3, EmitKeepsOrder, SendKeepsOrder, ServeKeepsOrder, HandleKeepsOrder DEF Next, Scan

\* The order of delivery holds throughout every scan.
THEOREM OrderInvariant == Spec => []OrderInv
BY InitOrder, NextOrder, TypeCorrect, ScanInvariant, PTL DEF Spec
-----------------------------------------------------------------------------
(* What follows from it.                                                   *)

LEMMA OrderedCopies == TypeOK /\ OrderInv => CopiesOnlyOfChanged
<1> SUFFICES ASSUME TypeOK, OrderInv, NEW i \in DOMAIN out, NEW j \in DOMAIN out,
                    i < j, out[i].id = out[j].id
             PROVE  /\ out[j].stamp > 0 /\ out[i].stamp <= out[j].stamp
                    /\ \A k \in DOMAIN out : out[k].id = out[i].id => k \in {i, j}
  BY DEF CopiesOnlyOfChanged
<1>1. Len(out) \in Nat /\ DOMAIN out = 1..Len(out)
  BY OutputType
<1>2. \A k \in 1..Len(out) : out[k].id \in Nat
  BY OutputType
<1>3. PICK n \in 0..Len(out) : Ordered(n)
  BY DEF OrderInv, Staged
<1>4. \A k, l \in 1..Len(out) : k < l /\ out[k].id = out[l].id => k <= n /\ n < l
  <2> SUFFICES ASSUME NEW k \in 1..Len(out), NEW l \in 1..Len(out), k < l, out[k].id = out[l].id
               PROVE  k <= n /\ n < l
    OBVIOUS
  <2>1. ASSUME l <= n PROVE FALSE
    <3>1. k \in 1..n /\ l \in 1..n
      BY <1>1, <1>3, <2>1
    <3>2. out[k].id < out[l].id
      BY <1>3, <3>1 DEF Ordered
    <3>3. QED
      BY <1>2, <3>2
  <2>2. ASSUME n < k PROVE FALSE
    <3>1. k \in (n + 1)..Len(out) /\ l \in (n + 1)..Len(out)
      BY <1>1, <1>3, <2>2
    <3>2. out[k].id < out[l].id
      BY <1>3, <3>1 DEF Ordered
    <3>3. QED
      BY <1>2, <3>2
  <2>3. QED
    BY <1>1, <2>1, <2>2
<1>5. i <= n /\ n < j
  BY <1>1, <1>4
<1>6. out[j].stamp > 0
  <2>1. j \in (n + 1)..Len(out)
    BY <1>1, <1>3, <1>5
  <2>2. QED
    BY <1>3, <2>1 DEF Ordered
<1>7. out[i].stamp <= out[j].stamp
  BY <1>1 DEF OrderInv, Newer
<1>8. ASSUME NEW k \in DOMAIN out, out[k].id = out[i].id, k # i, k # j PROVE FALSE
  <2>1. CASE k <= n
    <3>1. k < i \/ i < k
      BY <1>1, <1>8
    <3>2. QED
      BY <1>1, <1>4, <1>5, <1>8, <2>1, <3>1
  <2>2. CASE n < k
    <3>1. k < j \/ j < k
      BY <1>1, <1>8
    <3>2. QED
      BY <1>1, <1>4, <1>5, <1>8, <2>2, <3>1
  <2>3. QED
    BY <1>1, <2>1, <2>2
<1>9. QED
  BY <1>6, <1>7, <1>8

\* A row is delivered twice at most, the second time because it was changed since
\* the scan opened, and never an older version after a newer one.
THEOREM CopiesAreOfChanged == Spec => []CopiesOnlyOfChanged
BY OrderedCopies, OrderInvariant, TypeCorrect, PTL

\* When the sync token dates from the page it came with, the sync check repeats
\* no version.
THEOREM NothingTwice == Spec => []NoVersionTwice
<1>1. TypeOK /\ OrderInv => NoVersionTwice
  <2> SUFFICES ASSUME TypeOK, OrderInv, ~SyncFromListing, NEW i \in 1..Len(out), NEW j \in 1..Len(out),
                      i < j, out[i] = out[j]
               PROVE  FALSE
    <3>1. DOMAIN out = 1..Len(out) /\ Len(out) \in Nat
      BY OutputType DEF TypeOK
    <3>2. QED
      BY <3>1 DEF NoVersionTwice
  <2>1. PICK n \in 0..Len(out) : Staged(n)
    BY DEF OrderInv
  <2>2. /\ Len(out) \in Nat /\ out[i].id \in Nat /\ out[i].stamp \in Nat
    BY OutputType
  <2>3. ASSUME j <= n PROVE FALSE
    <3>1. out[i].id < out[j].id
      BY <2>1, <2>2, <2>3 DEF Staged, Ordered
    <3>2. QED
      BY <2>2, <3>1
  <2>4. ASSUME n < i PROVE FALSE
    <3>1. out[i].id < out[j].id
      BY <2>1, <2>2, <2>4 DEF Staged, Ordered
    <3>2. QED
      BY <2>2, <3>1
  <2>5. ASSUME i <= n, n < j PROVE FALSE
    <3>1. out[i].stamp < out[j].stamp
      BY <2>1, <2>2, <2>5 DEF Staged, Behind
    <3>2. QED
      BY <2>2, <3>1
  <2>6. QED
    BY <2>1, <2>2, <2>3, <2>4, <2>5
<1>2. QED
  BY <1>1, OrderInvariant, TypeCorrect, PTL
-----------------------------------------------------------------------------
(* The pushed limit.                                                       *)

\* A scan that stopped at its limit has not skipped a row either.
LEMMA NoneSkipped ==
    ASSUME TypeOK, ScanInv, OrderInv, phase = "done",
           NEW r \in stable, NEW d \in Delivered, r < d
    PROVE  r \in Delivered
<1> SUFFICES ASSUME r \notin Delivered PROVE FALSE
  OBVIOUS
<1>1. rows = {}
  BY DEF ScanInv, DoneIsFinished
<1>2. ToCome(r)
  BY <1>1 DEF ScanInv, NonePassedOver
<1>3. ~finished /\ Position(Upcoming).kind = "list" /\ Position(Upcoming).after < r
  BY <1>2 DEF ToCome
<1>4. PICK i \in 1..Len(out) : d = out[i].id
  BY OutputType DEF Delivered
<1>5. PICK n \in 0..Len(out) : Staged(n)
  BY DEF OrderInv
<1>6. out # <<>>
  BY <1>4
<1>7. CASE next_page_token # NoToken
  <2>1. Position(Upcoming) = next_page_token
    BY <1>7 DEF Position, Upcoming
  <2>2. ~sync_check_done
    BY <1>3, <1>7, <2>1 DEF OrderInv, WireInv, TokensFollow, Resting
  <2>3. d <= next_page_token.after
    BY <1>4, <1>5, <1>7, <2>2 DEF Staged, Ahead, Now, Resting
  <2>4. next_page_token.after \in Nat /\ d \in Nat /\ r \in Nat
    <3>1. next_page_token \in PageToken
      BY <1>7 DEF TypeOK
    <3>2. next_page_token.after \in Nat
      BY <3>1, ScanAssumption DEF PageToken
    <3>3. d \in Nat
      BY <1>4, OutputType
    <3>4. stable \subseteq Rows
      BY DEF TypeOK
    <3>5. r \in Nat
      BY <3>4, ScanAssumption DEF Rows
    <3>6. QED
      BY <3>2, <3>3, <3>5
  <2>5. QED
    BY <1>3, <2>1, <2>3, <2>4
<1>8. CASE next_page_token = NoToken /\ AsksSync
  BY <1>3, <1>8 DEF Position, Upcoming, AsksSync
<1>9. CASE next_page_token = NoToken /\ ~AsksSync
  BY <1>3, <1>6, <1>9 DEF OrderInv, WireInv, TokensFollow, Resting
<1>10. QED
  BY <1>7, <1>8, <1>9

\* Before the first change the versions in the table are those of stable rows.
LEMMA Untouched == Spec => [](clock = 0 => \A v \in exposed : v.id \in stable)
<1>1. Init => (clock = 0 => \A v \in exposed : v.id \in stable)
  BY DEF Init
<1>2. TypeOK /\ (clock = 0 => \A v \in exposed : v.id \in stable) /\ [Next]_vars
        => (clock = 0 => \A v \in exposed : v.id \in stable)'
  <2> SUFFICES ASSUME TypeOK, clock = 0 => \A v \in exposed : v.id \in stable, [Next]_vars
               PROVE  (clock = 0 => \A v \in exposed : v.id \in stable)'
    OBVIOUS
  <2>1. ASSUME NEW r \in Rows, NEW alive \in BOOLEAN, Change(r, alive) PROVE clock' # 0
    BY <2>1 DEF Change, TypeOK
  <2>2. CASE UNCHANGED server
    BY <2>2 DEF server
  <2>3. UNCHANGED server \/ clock' # 0
    BY <2>1 DEF Next, Scan, ScanCall, EmitRow, ReturnChunk, SendRequest, Serve, HandleResponse,
                Fail, Close, Over, vars
  <2>4. QED
    BY <2>2, <2>3
<1>3. QED
  BY <1>1, <1>2, TypeCorrect, PTL DEF Spec

\* What a query with a pushed limit gets is a prefix of the table, with as many
\* rows as it asked for or else all of them.
THEOREM LimitedAnswerIsRight == Spec => []LimitedAnswer
<1>1. TypeOK /\ ScanInv /\ OrderInv /\ (clock = 0 => \A v \in exposed : v.id \in stable)
        => LimitedAnswer
  <2> SUFFICES ASSUME TypeOK, ScanInv, OrderInv, phase = "done", clock = 0,
                      \A v \in exposed : v.id \in stable
               PROVE  /\ \A r \in stable, d \in Delivered : r < d => r \in Delivered
                      /\ LimitReached \/ Delivered = stable
    BY DEF LimitedAnswer
  <2>1. \A r \in stable, d \in Delivered : r < d => r \in Delivered
    BY NoneSkipped
  <2>2. Delivered \subseteq stable
    BY DEF ScanInv, StreamExposed, EmittedWasLive, Delivered
  <2>3. LimitReached \/ stable \subseteq Delivered
    BY DoneIsComplete DEF NoLostRow
  <2>4. QED
    BY <2>1, <2>2, <2>3
<1>2. QED
  BY <1>1, Untouched, OrderInvariant, ScanInvariant, TypeCorrect, PTL

\* The image of a finite set is finite and no larger.
LEMMA ImageBound ==
    ASSUME NEW S, NEW T, IsFiniteSet(S), NEW f \in [S -> T], \A t \in T : \E s \in S : f[s] = t
    PROVE  IsFiniteSet(T) /\ Cardinality(T) <= Cardinality(S)
<1>1. f \in Surjection(S, T)
  BY DEF Surjection
<1>2. QED
  BY <1>1, FS_Surjection

\* A batch is no larger than a page, and after the limit is reached only what is
\* left of one is delivered.
Sizes ==
    /\ IsFiniteSet(rows)
    /\ IsFiniteSet(response.entries) /\ Cardinality(response.entries) <= PageLimit

WithinLimit ==
    PushedLimit > 0 =>
        /\ Len(out) >= PushedLimit => scan_finished
        /\ Len(out) + Cardinality(rows) < PushedLimit + PageLimit

LimitInv == Sizes /\ WithinLimit

LEMMA NextLimit == TypeOK /\ ScanInv /\ LimitInv /\ [Next]_vars => LimitInv'
<1> SUFFICES ASSUME TypeOK, ScanInv, LimitInv, [Next]_vars PROVE LimitInv'
  OBVIOUS
<1>1. PageLimit \in Nat \ {0} /\ PushedLimit \in Nat /\ Len(out) \in Nat
  BY PageLimitType, ScanAssumption, OutputType
<1>2. CASE UNCHANGED <<response, rows, out, scan_finished>>
  BY <1>2 DEF LimitInv, Sizes, WithinLimit
<1>3. CASE EmitRow
  <2>1. PICK v \in rows : rows' = rows \ {v} /\ out' = Append(out, v)
    BY <1>3 DEF EmitRow
  <2>2. IsFiniteSet(rows') /\ Cardinality(rows') = Cardinality(rows) - 1 /\ Cardinality(rows) \in Nat
    BY <2>1, FS_RemoveElement, FS_CardinalityType DEF LimitInv, Sizes
  <2>3. Len(out') = Len(out) + 1
    <3>1. v \in Version
      BY DEF TypeOK
    <3>2. QED
      BY <2>1, <3>1, AppendDelivers DEF TypeOK
  <2>4. PushedLimit > 0 /\ Len(out') >= PushedLimit => scan_finished'
    <3>1. scan_finished' = (scan_finished \/ HitsLimit)
      BY <1>3 DEF EmitRow
    <3>2. PushedLimit > 0 /\ Len(out') >= PushedLimit /\ ~scan_finished => HitsLimit
      BY <1>1, <2>3 DEF LimitInv, WithinLimit, HitsLimit, ScanInv, RemainingCounts
    <3>3. QED
      BY <3>1, <3>2
  <2>5. WithinLimit'
    BY <1>1, <2>2, <2>3, <2>4 DEF LimitInv, WithinLimit
  <2>6. UNCHANGED response
    BY <1>3 DEF EmitRow, wire
  <2>7. QED
    BY <2>2, <2>5, <2>6 DEF LimitInv, Sizes
<1>4. CASE Serve
  <2>1. UNCHANGED <<rows, out, scan_finished>>
    BY <1>4 DEF Serve, vectors
  <2>2. PICK S \in SUBSET Rows : /\ Cardinality(S) <= PageLimit
                                /\ response'.entries = {Entry(r) : r \in S}
    <3>1. PICK upto \in (Position(request).after + 1)..(NRows + 1), tombstones \in BOOLEAN,
               offered \in OffersSync :
            /\ Cardinality(Page(Position(request), upto, tombstones)) <= PageLimit
            /\ response' =
                 [entries |-> {Entry(r) : r \in Page(Position(request), upto, tombstones)},
                  page |-> IF upto > NRows THEN NoToken
                           ELSE [Position(request) EXCEPT !.after = upto],
                  sync |-> IF offered THEN SyncToken(Position(request)) ELSE NoToken]
      BY <1>4 DEF Serve
    <3>2. Page(Position(request), upto, tombstones) \in SUBSET Rows
      BY DEF Page
    <3>3. QED
      BY <3>1, <3>2
  <2>3. IsFiniteSet(S) /\ Cardinality(S) \in Nat
    <3>1. IsFiniteSet(Rows)
      BY ScanAssumption, FS_Interval DEF Rows
    <3>2. QED
      BY <3>1, FS_Subset, FS_CardinalityType
  <2>4. IsFiniteSet(response'.entries) /\ Cardinality(response'.entries) <= Cardinality(S)
    <3> DEFINE T == {Entry(r) : r \in S}
               f == [r \in S |-> Entry(r)]
    <3>1. f \in [S -> T] /\ \A t \in T : \E r \in S : f[r] = t
      OBVIOUS
    <3> HIDE DEF T, f
    <3>2. IsFiniteSet(T) /\ Cardinality(T) <= Cardinality(S)
      BY <2>3, <3>1, ImageBound
    <3>3. QED
      BY <2>2, <3>2 DEF T
  <2>5. Cardinality(response'.entries) <= PageLimit
    <3>1. Cardinality(response'.entries) \in Nat
      BY <2>4, FS_CardinalityType
    <3>2. QED
      BY <1>1, <2>2, <2>3, <2>4, <3>1
  <2>6. QED
    BY <2>1, <2>4, <2>5 DEF LimitInv, Sizes, WithinLimit
<1>5. CASE HandleResponse
  <2>1. response' = NoResponse /\ UNCHANGED out /\ phase = "served"
    BY <1>5 DEF HandleResponse
  <2>2. ~scan_finished /\ rows' = Visible(response.entries)
    <3>1. rows = {} /\ ~scan_finished
      BY <2>1 DEF ScanInv, FetchingIsOpen
    <3>2. QED
      BY <1>5, <3>1 DEF HandleResponse
  <2> DEFINE S == {d \in response.entries : ~d.deleted}
             f == [e \in S |-> [id |-> e.id, stamp |-> e.stamp]]
  <2>3. f \in [S -> rows'] /\ \A v \in rows' : \E e \in S : f[e] = v
    BY <2>2 DEF Visible
  <2>4. IsFiniteSet(S) /\ Cardinality(S) <= Cardinality(response.entries)
    BY FS_Subset DEF LimitInv, Sizes
  <2> HIDE DEF S, f
  <2>5. IsFiniteSet(rows') /\ Cardinality(rows') <= Cardinality(S)
    BY <2>3, <2>4, ImageBound
  <2>6. Cardinality(rows') <= PageLimit /\ Cardinality(rows') \in Nat
    <3>1. /\ Cardinality(rows') \in Nat /\ Cardinality(S) \in Nat
          /\ Cardinality(response.entries) \in Nat
      BY <2>4, <2>5, FS_CardinalityType DEF LimitInv, Sizes
    <3>2. QED
      BY <1>1, <2>4, <2>5, <3>1 DEF LimitInv, Sizes
  <2>7. WithinLimit'
    BY <1>1, <2>1, <2>2, <2>6 DEF LimitInv, WithinLimit
  <2>8. QED
    BY <1>1, <2>1, <2>5, <2>7, FS_EmptySet DEF LimitInv, Sizes, NoResponse
<1>6. UNCHANGED <<response, rows, out, scan_finished>> \/ EmitRow \/ Serve \/ HandleResponse
  BY DEF Next, Scan, Change, ScanCall, ReturnChunk, SendRequest, Fail, Close, Over, vars, wire, vectors
<1>7. QED
  BY <1>2, <1>3, <1>4, <1>5, <1>6

LEMMA InitLimit == Init => LimitInv
<1> SUFFICES ASSUME Init PROVE LimitInv
  OBVIOUS
<1>1. Len(out) = 0 /\ Cardinality(rows) = 0 /\ IsFiniteSet(rows)
      /\ response.entries = {}
  BY FS_EmptySet DEF Init, NoResponse
<1>2. QED
  BY <1>1, FS_EmptySet, PageLimitType, ScanAssumption DEF LimitInv, Sizes, WithinLimit

\* A scan with a pushed limit passes it by less than a page.
THEOREM OvershootIsBounded == Spec => []BoundedOvershoot
<1>1. TypeOK /\ LimitInv => BoundedOvershoot
  <2> SUFFICES ASSUME TypeOK, LimitInv, PushedLimit > 0
               PROVE  Len(out) < PushedLimit + PageLimit
    BY DEF BoundedOvershoot
  <2>1. Cardinality(rows) \in Nat /\ Len(out) \in Nat /\ PageLimit \in Nat /\ PushedLimit \in Nat
    BY FS_CardinalityType, OutputType, PageLimitType, ScanAssumption DEF LimitInv, Sizes
  <2>2. QED
    BY <2>1 DEF LimitInv, WithinLimit
<1>2. QED
  BY <1>1, InitLimit, NextLimit, TypeCorrect, ScanInvariant, PTL DEF Spec

-----------------------------------------------------------------------------
(* The sync check.                                                         *)

\* Every response carries a sync token, which dates from the listing's first page.
Synced == SyncFromListing /\ OffersSync = {TRUE}

Current(r) == [id |-> r, stamp |-> stamp[r]]

Have(r) == Current(r) \in rows \/ \E i \in 1..Len(out) : out[i] = Current(r)

Answers(r) == \E e \in response.entries : e.id = r /\ e.stamp = stamp[r] /\ ~e.deleted

\* During the listing: what was not changed since the listing began is there or to come.
Listing ==
    ~sync_check_done =>
        /\ phase = "sent" => synced = NoToken /\ From.kind = "list" /\ From.since <= clock
              /\ \A r \in Rows : live[r] /\ stamp[r] <= From.since => Have(r) \/ From.after < r
        /\ phase = "served" =>
              /\ synced = NoToken /\ response.sync \in Nat /\ response.sync <= clock
              /\ response.page # NoToken => response.page.since = response.sync
              /\ \A r \in Rows : live[r] /\ stamp[r] <= response.sync =>
                     \/ Have(r) \/ Answers(r)
                     \/ response.page # NoToken /\ response.page.after < r
        /\ phase \in Resting =>
              /\ synced = NoToken /\ ~finished
              /\ next_page_token # NoToken =>
                    /\ next_page_token.since <= clock
                    /\ \A r \in Rows : live[r] /\ stamp[r] <= next_page_token.since =>
                           Have(r) \/ next_page_token.after < r
              /\ AsksSync =>
                    /\ next_sync_token <= clock
                    /\ \A r \in Rows : live[r] /\ stamp[r] <= next_sync_token => Have(r)

\* A listing of changes has yet to come to row r from token t.
Behindhand(r, t) == t.since < stamp[r] /\ t.after < r

\* During the sync check: what was not changed since the check began is there or to come.
Checking ==
    sync_check_done =>
        /\ synced # NoToken => synced \in Nat /\ synced <= clock
        /\ phase = "sent" =>
              /\ synced = NoToken <=> From.after = 0
              /\ From.since <= clock
              /\ \A r \in Rows : live[r] /\ (synced = NoToken \/ stamp[r] <= synced) =>
                     Have(r) \/ Behindhand(r, From)
        /\ phase = "served" =>
              /\ synced # NoToken
              /\ response.page # NoToken => response.page.after > 0 /\ response.page.since <= clock
              /\ \A r \in Rows : live[r] /\ stamp[r] <= synced =>
                     \/ Have(r) \/ Answers(r)
                     \/ response.page # NoToken /\ Behindhand(r, response.page)
        /\ phase \in Resting =>
              /\ synced # NoToken /\ (finished => next_page_token = NoToken)
              /\ next_page_token # NoToken => next_page_token.after > 0 /\ next_page_token.since <= clock
              /\ \A r \in Rows : live[r] /\ stamp[r] <= synced =>
                     \/ Have(r)
                     \/ next_page_token # NoToken /\ Behindhand(r, next_page_token)

FreshInv == Synced => Listing /\ Checking

LEMMA InitFresh == Init => FreshInv
<1> SUFFICES ASSUME Init PROVE FreshInv
  OBVIOUS
<1>1. Listing /\ Checking
  BY DEF Init, Listing, Checking, AsksSync, Asked, Resting
<1>2. QED
  BY <1>1 DEF FreshInv

LEMMA ChangeKeepsFresh ==
    ASSUME TypeOK, OrderInv, FreshInv, Synced, NEW r \in Rows, NEW alive \in BOOLEAN, Change(r, alive)
    PROVE  Listing' /\ Checking'
<1>1. /\ UNCHANGED <<handle, wire, vectors, phase>> /\ clock' = clock + 1 /\ clock \in Nat
      /\ live' = [live EXCEPT ![r] = alive]
      /\ stamp' = [stamp EXCEPT ![r] = clock + 1] /\ stamp \in [Rows -> Nat] /\ live \in [Rows -> BOOLEAN]
  BY DEF Change, TypeOK
<1>2. UNCHANGED <<next_page_token, next_sync_token, sync_check_done, finished, request, response,
                  rows, out, phase, synced>>
  BY <1>1 DEF handle, wire, vectors
<1>3. /\ stamp'[r] = clock + 1
      /\ \A s \in Rows : s # r => stamp'[s] = stamp[s] /\ live'[s] = live[s]
      /\ \A s \in Rows : stamp[s] \in Nat
  BY <1>1
<1>4. ASSUME NEW s \in Rows, s # r
      PROVE  /\ Have(s) => Have(s)'
             /\ Answers(s) => Answers(s)'
  BY <1>2, <1>3, <1>4 DEF Have, Answers, Current
<1>5. /\ From'.kind = From.kind /\ From'.after = From.after
      /\ From.kind = "delta" => From'.since = From.since
      /\ From'.since # From.since => From.after = 0 /\ From'.since = clock'
  BY <1>2 DEF From, Position
<1>6. Listing /\ Checking
  BY DEF FreshInv
<1>7. From \in PageToken /\ response \in Response
  BY PositionType DEF TypeOK, From
<1>8. Listing'
  <2>1. ASSUME phase = "sent", ~sync_check_done
        PROVE  /\ From'.since <= clock'
               /\ \A s \in Rows : live'[s] /\ stamp'[s] <= From'.since => Have(s)' \/ From'.after < s
    <3>1. From.since \in Nat /\ From.since <= clock
          /\ \A s \in Rows : live[s] /\ stamp[s] <= From.since => Have(s) \/ From.after < s
      BY <1>6, <1>7, <2>1 DEF Listing, PageToken
    <3>2. CASE From'.since = From.since
      BY <1>1, <1>3, <1>4, <1>5, <3>1, <3>2
    <3>3. CASE From'.since # From.since
      BY <1>1, <1>5, <3>3 DEF Rows
    <3>4. QED
      BY <3>2, <3>3
  <2>2. ASSUME phase = "served", ~sync_check_done
        PROVE  /\ response.sync <= clock'
               /\ \A s \in Rows : live'[s] /\ stamp'[s] <= response.sync =>
                     \/ Have(s)' \/ Answers(s)'
                     \/ response.page # NoToken /\ response.page.after < s
    <3>1. response.sync \in Nat /\ response.sync <= clock
      BY <1>6, <2>2 DEF Listing
    <3>2. QED
      BY <1>1, <1>3, <1>4, <1>6, <2>2, <3>1 DEF Listing
  <2>3. ASSUME phase \in Resting, ~sync_check_done, next_page_token # NoToken
        PROVE  /\ next_page_token.since <= clock'
               /\ \A s \in Rows : live'[s] /\ stamp'[s] <= next_page_token.since =>
                           Have(s)' \/ next_page_token.after < s
    <3>1. next_page_token.since \in Nat /\ next_page_token.since <= clock
      BY <1>6, <2>3 DEF Listing, TypeOK, PageToken
    <3>2. QED
      BY <1>1, <1>3, <1>4, <1>6, <2>3, <3>1 DEF Listing
  <2>4. ASSUME phase \in Resting, ~sync_check_done, AsksSync
        PROVE  /\ next_sync_token <= clock'
               /\ \A s \in Rows : live'[s] /\ stamp'[s] <= next_sync_token => Have(s)'
    <3>1. next_sync_token \in Nat /\ next_sync_token <= clock
      BY <1>6, <2>4 DEF Listing, TypeOK, AsksSync
    <3>2. QED
      BY <1>1, <1>3, <1>4, <1>6, <2>4, <3>1 DEF Listing
  <2>5. AsksSync' = AsksSync
    BY <1>2 DEF AsksSync
  <2>6. QED
    BY <1>2, <1>5, <1>6, <2>1, <2>2, <2>3, <2>4, <2>5 DEF Listing
<1>9. Checking'
  <2> SUFFICES ASSUME sync_check_done PROVE Checking'
    BY <1>2 DEF Checking
  <2>1. synced # NoToken => synced \in Nat /\ synced <= clock /\ clock < stamp'[r] /\ synced <= clock'
    BY <1>1, <1>3, <1>6 DEF Checking
  <2>2. ASSUME phase = "sent"
        PROVE  /\ From'.since <= clock'
               /\ \A s \in Rows : live'[s] /\ (synced = NoToken \/ stamp'[s] <= synced) =>
                     Have(s)' \/ Behindhand(s, From)'
    <3>1. From'.since = From.since /\ From.since \in Nat /\ From.since <= clock
      BY <1>5, <1>6, <1>7, <2>2 DEF Checking, PageToken, OrderInv, WireInv, TokensFollow, Asked
    <3>2. \A s \in Rows : s # r /\ Behindhand(s, From) => Behindhand(s, From)'
      BY <1>3, <1>5, <3>1 DEF Behindhand
    <3>3. synced = NoToken => Behindhand(r, From)'
      <4>1. synced = NoToken => From.after = 0
        BY <1>6, <2>2 DEF Checking
      <4>2. QED
        BY <1>1, <1>3, <1>5, <3>1, <4>1 DEF Behindhand, Rows
    <3>4. ASSUME NEW s \in Rows, live'[s], synced = NoToken \/ stamp'[s] <= synced
          PROVE  Have(s)' \/ Behindhand(s, From)'
      <4>1. CASE s = r
        BY <1>1, <1>3, <2>1, <3>3, <3>4, <4>1
      <4>2. CASE s # r
        BY <1>3, <1>4, <1>6, <2>2, <3>2, <3>4, <4>2 DEF Checking
      <4>3. QED
        BY <4>1, <4>2
    <3>5. QED
      BY <1>1, <3>1, <3>4
  <2>3. ASSUME phase = "served"
        PROVE  /\ response.page # NoToken => response.page.since <= clock'
               /\ \A s \in Rows : live'[s] /\ stamp'[s] <= synced =>
                     \/ Have(s)' \/ Answers(s)'
                     \/ response.page # NoToken /\ Behindhand(s, response.page)'
    <3>1. response.page # NoToken => response.page.since \in Nat /\ response.page.since <= clock
      BY <1>6, <1>7, <2>3 DEF Checking, Response, PageToken
    <3>2. ASSUME NEW s \in Rows, live'[s], stamp'[s] <= synced
          PROVE  \/ Have(s)' \/ Answers(s)'
                 \/ response.page # NoToken /\ Behindhand(s, response.page)'
      <4>1. s # r
        BY <1>1, <1>6, <2>1, <2>3, <3>2, <1>3 DEF Checking
      <4>2. QED
        BY <1>2, <1>3, <1>4, <1>6, <2>3, <3>2, <4>1 DEF Checking, Behindhand
    <3>3. QED
      BY <1>1, <3>1, <3>2
  <2>4. ASSUME phase \in Resting
        PROVE  /\ next_page_token # NoToken => next_page_token.since <= clock'
               /\ \A s \in Rows : live'[s] /\ stamp'[s] <= synced =>
                     \/ Have(s)'
                     \/ next_page_token # NoToken /\ Behindhand(s, next_page_token)'
    <3>1. next_page_token # NoToken => next_page_token.since \in Nat /\ next_page_token.since <= clock
      BY <1>6, <2>4 DEF Checking, TypeOK, PageToken
    <3>2. ASSUME NEW s \in Rows, live'[s], stamp'[s] <= synced
          PROVE  \/ Have(s)'
                 \/ next_page_token # NoToken /\ Behindhand(s, next_page_token)'
      <4>1. s # r
        BY <1>1, <1>6, <2>1, <2>4, <3>2, <1>3 DEF Checking
      <4>2. QED
        BY <1>2, <1>3, <1>4, <1>6, <2>4, <3>2, <4>1 DEF Checking, Behindhand
    <3>3. QED
      BY <1>1, <3>1, <3>2
  <2>5. synced' = synced /\ phase' = phase /\ response' = response /\ next_page_token' = next_page_token
        /\ finished' = finished /\ sync_check_done' = sync_check_done /\ From'.after = From.after
    BY <1>2, <1>5
  <2>6. QED
    BY <1>6, <2>1, <2>2, <2>3, <2>4, <2>5 DEF Checking, Behindhand
<1>10. QED
  BY <1>8, <1>9

LEMMA QuietKeepsFresh ==
    ASSUME Listing, Checking, UNCHANGED <<server, handle, wire, rows, out>>,
           phase' = phase \/ (phase' \notin Asked /\ (phase' \in Resting => phase \in Resting))
    PROVE  Listing' /\ Checking'
<1>1. UNCHANGED <<live, stamp, clock, next_page_token, next_sync_token, sync_check_done, finished,
                  request, response, synced, rows, out>>
  BY DEF server, handle, wire
<1>2. From' = From /\ AsksSync' = AsksSync
  BY <1>1 DEF From, Position, AsksSync
<1>3. \A r : Have(r)' = Have(r) /\ Answers(r)' = Answers(r)
  BY <1>1 DEF Have, Answers, Current
<1>4. Listing'
  BY <1>1, <1>2, <1>3 DEF Listing, Asked
<1>5. Checking'
  BY <1>1, <1>2, <1>3 DEF Checking, Behindhand, Asked
<1>6. QED
  BY <1>4, <1>5

LEMMA EmitKeepsFresh ==
    ASSUME TypeOK, Listing, Checking, EmitRow
    PROVE  Listing' /\ Checking'
<1>1. PICK v \in rows : rows' = rows \ {v} /\ out' = Append(out, v)
  BY DEF EmitRow
<1>2. UNCHANGED <<server, handle, wire>> /\ phase = "filling" /\ phase' \in {"idle", "filling"}
  BY DEF EmitRow
<1>3. UNCHANGED <<live, stamp, clock, next_page_token, next_sync_token, sync_check_done, finished, synced>>
      /\ AsksSync' = AsksSync
  BY <1>2 DEF server, handle, wire, AsksSync
<1>4. ASSUME NEW r, Have(r) PROVE Have(r)'
  <2>1. /\ Len(out) \in Nat /\ Len(out') = Len(out) + 1 /\ out'[Len(out) + 1] = v
        /\ \A i \in 1..Len(out) : out'[i] = out[i]
    <3>1. out \in Seq(Version) /\ v \in Version
      BY DEF TypeOK
    <3>2. QED
      BY <1>1, <3>1
  <2>2. Current(r)' = Current(r)
    BY <1>3 DEF Current
  <2>3. QED
    BY <1>1, <1>4, <2>1, <2>2 DEF Have
<1>5. Listing'
  BY <1>2, <1>3, <1>4 DEF Listing, Resting
<1>6. Checking'
  BY <1>2, <1>3, <1>4 DEF Checking, Behindhand, Resting
<1>7. QED
  BY <1>5, <1>6

LEMMA SendKeepsFresh ==
    ASSUME TypeOK, ScanInv, OrderInv, Listing, Checking, SendRequest
    PROVE  Listing' /\ Checking'
<1>1. /\ UNCHANGED <<server, next_page_token, next_sync_token, finished, response, synced, vectors>>
      /\ phase \in {"filling", "requesting"} /\ phase' = "sent" /\ request' = Upcoming
      /\ sync_check_done' = (sync_check_done \/ AsksSync)
  BY DEF SendRequest, NeedsBatch, Upcoming
<1>2. ~finished /\ phase \in Resting
  BY <1>1 DEF SendRequest, NeedsBatch, ScanInv, FetchingIsOpen, DoneIsFinished, Resting
<1>3. UNCHANGED <<live, stamp, clock, rows, out, synced>>
  BY <1>1 DEF server, vectors
<1>4. \A r : Have(r)' = Have(r)
  BY <1>3 DEF Have, Current
<1>5. CASE next_page_token # NoToken
  <2>1. From' = next_page_token /\ sync_check_done' = sync_check_done
    BY <1>1, <1>5 DEF From, Position, Upcoming, AsksSync, TypeOK
  <2>2. ~sync_check_done => next_page_token.kind = "list"
    BY <1>2, <1>5 DEF OrderInv, WireInv, TokensFollow, TypeOK, PageToken
  <2>3. Listing'
    BY <1>1, <1>2, <1>3, <1>4, <1>5, <2>1, <2>2 DEF Listing, Resting
  <2>4. sync_check_done => ~(next_page_token.after = 0)
    BY <1>2, <1>5 DEF Checking
  <2>5. Checking'
    BY <1>1, <1>2, <1>3, <1>4, <1>5, <2>1, <2>4 DEF Checking, Behindhand, Resting
  <2>6. QED
    BY <2>3, <2>5
<1>6. CASE AsksSync
  <2>1. /\ From'.since = next_sync_token /\ From'.after = 0
        /\ sync_check_done' /\ ~sync_check_done
    BY <1>1, <1>6 DEF From, Position, Upcoming, AsksSync
  <2>2. /\ synced = NoToken /\ next_sync_token <= clock
        /\ \A r \in Rows : live[r] /\ stamp[r] <= next_sync_token => Have(r)
    BY <1>2, <1>6, <2>1 DEF Listing
  <2>3. \A r \in Rows : stamp[r] \in Nat /\ next_sync_token \in Nat /\ 0 < r
    BY <1>6 DEF TypeOK, AsksSync, Rows
  <2>4. \A r \in Rows : live[r] => Have(r) \/ (next_sync_token < stamp[r] /\ 0 < r)
    BY <2>2, <2>3
  <2>5. Checking'
    BY <1>1, <1>3, <1>4, <2>1, <2>2, <2>4 DEF Checking, Behindhand, Resting
  <2>6. Listing'
    BY <2>1 DEF Listing
  <2>7. QED
    BY <2>5, <2>6
<1>7. CASE next_page_token = NoToken /\ ~AsksSync
  <2>1. ~sync_check_done /\ ~sync_check_done'
    BY <1>1, <1>2, <1>7 DEF OrderInv, WireInv, TokensFollow
  <2>2. From' = [kind |-> "list", after |-> 0, since |-> clock']
    BY <1>1, <1>7 DEF From, Position, Upcoming
  <2>3. \A r \in Rows : 0 < r
    BY DEF Rows
  <2>4. clock' <= clock'
    BY <1>3 DEF TypeOK
  <2>5. synced' = NoToken
    BY <1>2, <1>3, <2>1 DEF Listing
  <2>6. Listing'
    BY <1>1, <2>2, <2>3, <2>4, <2>5 DEF Listing, Resting
  <2>7. QED
    BY <2>1, <2>6 DEF Checking
<1>8. QED
  BY <1>5, <1>6, <1>7

LEMMA ServeKeepsFresh ==
    ASSUME TypeOK, OrderInv, Synced, Listing, Checking, Serve
    PROVE  Listing' /\ Checking'
<1>1. /\ UNCHANGED <<server, handle, request, vectors>> /\ phase = "sent" /\ phase' = "served"
      /\ synced' = IF From.kind = "delta" /\ From.after = 0 THEN clock ELSE synced
  BY DEF Serve, From
<1>2. PICK upto \in (From.after + 1)..(NRows + 1), tombstones \in BOOLEAN, offered \in OffersSync :
          response' = [entries |-> {Entry(r) : r \in Page(From, upto, tombstones)},
                       page |-> IF upto > NRows THEN NoToken ELSE [From EXCEPT !.after = upto],
                       sync |-> IF offered THEN SyncToken(From) ELSE NoToken]
  BY DEF Serve, From
<1>3. From \in PageToken /\ clock \in Nat
  BY PositionType DEF TypeOK, From
<1>4. UNCHANGED <<live, stamp, clock, next_page_token, next_sync_token, sync_check_done, rows, out>>
  BY <1>1 DEF server, handle, vectors
<1>5. \A r : Have(r)' = Have(r)
  BY <1>4 DEF Have, Current
<1>6. upto \in Nat /\ From.after \in Nat /\ From.after < upto /\ From.since \in Nat
  BY <1>3 DEF PageToken
<1>7. upto <= NRows => /\ response'.page # NoToken /\ response'.page.after = upto
                       /\ response'.page.since = From.since
  <2> SUFFICES ASSUME upto <= NRows
               PROVE  /\ response'.page # NoToken /\ response'.page.after = upto
                      /\ response'.page.since = From.since
    OBVIOUS
  <2>1. response'.page = [From EXCEPT !.after = upto]
    BY <1>2, <1>6, ScanAssumption
  <2>2. [From EXCEPT !.after = upto] \in [kind : {"list", "delta"}, after : Nat, since : Nat]
    BY <1>3, <1>6 DEF PageToken
  <2>3. QED
    BY <1>3, <2>1, <2>2, NoTokenAssumption DEF PageToken
<1>8. response'.page # NoToken => upto <= NRows
  BY <1>2, <1>6, ScanAssumption
<1>9. ASSUME NEW r \in Rows, live[r], From.after < r, From.kind = "list" \/ From.since < stamp[r]
      PROVE  Answers(r)' \/ (response'.page # NoToken /\ response'.page.after < r)
  <2>1. CASE r <= upto
    <3>1. r \in Page(From, upto, tombstones)
      BY <1>9, <2>1 DEF Page, TypeOK
    <3>2. Entry(r) \in response'.entries
      BY <1>2, <3>1
    <3>3. Entry(r).id = r /\ Entry(r).stamp = stamp[r] /\ ~Entry(r).deleted
      BY <1>9 DEF Entry
    <3>4. QED
      BY <1>4, <3>2, <3>3 DEF Answers
  <2>2. CASE upto < r
    <3>1. upto <= NRows
      BY <1>6, <2>2, ScanAssumption DEF Rows
    <3>2. QED
      BY <1>7, <2>2, <3>1
  <2>3. QED
    BY <1>6, <2>1, <2>2 DEF Rows
<1>10. CASE ~sync_check_done
  <2>1. /\ synced = NoToken /\ From.kind = "list" /\ From.since <= clock
        /\ \A r \in Rows : live[r] /\ stamp[r] <= From.since => Have(r) \/ From.after < r
    BY <1>1, <1>10 DEF Listing
  <2>2. response'.sync = From.since
    BY <1>2, <2>1 DEF Synced, SyncToken
  <2>3. Listing'
    BY <1>1, <1>4, <1>5, <1>6, <1>7, <1>8, <1>9, <2>1, <2>2 DEF Listing, Resting
  <2>4. QED
    BY <1>4, <1>10, <2>3 DEF Checking
<1>11. CASE sync_check_done
  <2>1. From.kind = "delta"
    BY <1>1, <1>11 DEF OrderInv, WireInv, TokensFollow, Asked
  <2>2. /\ synced # NoToken => synced \in Nat /\ synced <= clock
        /\ synced = NoToken <=> From.after = 0
        /\ From.since <= clock
        /\ \A r \in Rows : live[r] /\ (synced = NoToken \/ stamp[r] <= synced) =>
               Have(r) \/ Behindhand(r, From)
    BY <1>1, <1>11 DEF Checking
  <2>3. /\ synced' # NoToken /\ synced' \in Nat /\ synced' <= clock
        /\ From.after # 0 => synced' = synced
    BY <1>1, <1>3, <2>1, <2>2, NoTokenAssumption
  <2>4. ASSUME NEW r \in Rows, live[r], stamp[r] <= synced'
        PROVE  \/ Have(r) \/ Answers(r)'
               \/ response'.page # NoToken /\ Behindhand(r, response'.page)
    <3>1. Have(r) \/ Behindhand(r, From)
      BY <2>2, <2>3, <2>4
    <3>2. CASE Behindhand(r, From)
      BY <1>7, <1>8, <1>9, <2>4, <3>2 DEF Behindhand
    <3>3. QED
      BY <3>1, <3>2
  <2>5. response'.page # NoToken => response'.page.after > 0 /\ response'.page.since <= clock
    BY <1>6, <1>7, <1>8, <2>2
  <2>6. Checking'
    BY <1>1, <1>4, <1>5, <2>3, <2>4, <2>5 DEF Checking, Behindhand, Resting
  <2>7. QED
    BY <1>4, <1>11, <2>6 DEF Listing
<1>12. QED
  BY <1>10, <1>11

LEMMA HandleKeepsFresh ==
    ASSUME TypeOK, ScanInv, Listing, Checking, HandleResponse
    PROVE  Listing' /\ Checking'
<1>1. /\ UNCHANGED <<server, sync_check_done, request, synced, out>>
      /\ phase = "served" /\ phase' \in {"filling", "requesting"}
      /\ next_page_token' = response.page /\ next_sync_token' = response.sync
      /\ finished' = IsLast(response) /\ response' = NoResponse
  BY DEF HandleResponse
<1>2. UNCHANGED <<live, stamp, clock>>
  BY <1>1 DEF server
<1>3. rows = {} /\ rows' = Visible(response.entries)
  <2>1. rows = {}
    BY <1>1 DEF ScanInv, FetchingIsOpen
  <2>2. QED
    BY <2>1 DEF HandleResponse
<1>4. ASSUME NEW r, Have(r) \/ Answers(r) PROVE Have(r)'
  <2>1. Current(r)' = Current(r)
    BY <1>2 DEF Current
  <2>2. CASE Have(r)
    BY <1>1, <1>3, <2>1, <2>2 DEF Have
  <2>3. CASE Answers(r)
    <3>1. Current(r) \in Visible(response.entries)
      BY <2>3 DEF Answers, Visible, Current
    <3>2. QED
      BY <1>3, <2>1, <3>1 DEF Have
  <2>4. QED
    BY <1>4, <2>2, <2>3
<1>5. CASE ~sync_check_done
  <2>1. /\ synced = NoToken /\ response.sync \in Nat /\ response.sync <= clock
        /\ response.page # NoToken => response.page.since = response.sync
        /\ \A r \in Rows : live[r] /\ stamp[r] <= response.sync =>
               \/ Have(r) \/ Answers(r)
               \/ response.page # NoToken /\ response.page.after < r
    BY <1>1, <1>5 DEF Listing
  <2>2. ~finished'
    BY <1>1, <1>5, <2>1, NoTokenAssumption DEF IsLast
  <2>3. AsksSync' => response.page = NoToken
    BY <1>1 DEF AsksSync
  <2>4. Listing'
    BY <1>1, <1>2, <1>4, <2>1, <2>2, <2>3 DEF Listing, Resting
  <2>5. QED
    BY <1>1, <1>5, <2>4 DEF Checking
<1>6. CASE sync_check_done
  <2>1. finished' => next_page_token' = NoToken
    BY <1>1 DEF IsLast
  <2>2. Checking'
    BY <1>1, <1>2, <1>4, <1>6, <2>1 DEF Checking, Behindhand, Resting
  <2>3. QED
    BY <1>1, <1>6, <2>2 DEF Listing
<1>7. QED
  BY <1>5, <1>6

LEMMA NextFresh == TypeOK /\ ScanInv /\ OrderInv /\ FreshInv /\ [Next]_vars => FreshInv'
<1> SUFFICES ASSUME TypeOK, ScanInv, OrderInv, FreshInv, [Next]_vars, Synced
             PROVE  Listing' /\ Checking'
  BY DEF FreshInv, Synced
<1>0. Listing /\ Checking
  BY DEF FreshInv
<1>1. ASSUME NEW r \in Rows, NEW alive \in BOOLEAN, Change(r, alive) PROVE Listing' /\ Checking'
  BY <1>1, ChangeKeepsFresh
<1>2. CASE ScanCall \/ ReturnChunk \/ Fail \/ Close
  <2>1. UNCHANGED <<server, handle, wire, rows, out>> /\ phase' \notin Asked
    BY <1>2 DEF ScanCall, ReturnChunk, Fail, Close, vectors, Asked
  <2>2. phase' \in Resting => phase \in Resting
    BY <1>2 DEF ScanCall, ReturnChunk, Fail, Close, Resting
  <2>3. QED
    BY <1>0, <2>1, <2>2, QuietKeepsFresh
<1>3. CASE Over \/ UNCHANGED vars
  <2>1. UNCHANGED <<server, handle, wire, rows, out, phase>>
    BY <1>3 DEF Over, vars, vectors
  <2>2. QED
    BY <1>0, <2>1, QuietKeepsFresh
<1>4. QED
  BY <1>0, <1>1, <1>2, <1>3, EmitKeepsFresh, SendKeepsFresh, ServeKeepsFresh, HandleKeepsFresh
     DEF Next, Scan

\* The sync check leaves nothing stale: a scan that ends normally has delivered the
\* current version of every row last changed before the check began.
THEOREM FreshWhenDone == Spec => []FreshAtSync
<1>1. TypeOK /\ ScanInv /\ FreshInv => FreshAtSync
  <2> SUFFICES ASSUME TypeOK, ScanInv, FreshInv, phase = "done", ~LimitReached, Synced
               PROVE  /\ synced # NoToken
                      /\ \A r \in Rows : live[r] /\ stamp[r] <= synced =>
                             \E i \in DOMAIN out : out[i] = [id |-> r, stamp |-> stamp[r]]
    BY DEF FreshAtSync, Synced
  <2>1. rows = {} /\ finished
    BY DEF ScanInv, DoneIsFinished
  <2>2. sync_check_done
    BY <2>1 DEF FreshInv, Listing, Resting
  <2>3. /\ synced # NoToken /\ next_page_token = NoToken
        /\ \A r \in Rows : live[r] /\ stamp[r] <= synced =>
               Have(r) \/ (next_page_token # NoToken /\ Behindhand(r, next_page_token))
    BY <2>1, <2>2 DEF FreshInv, Checking, Resting
  <2>4. \A r \in Rows : Have(r) => \E i \in DOMAIN out : out[i] = [id |-> r, stamp |-> stamp[r]]
    BY <2>1, OutputType DEF Have, Current
  <2>5. QED
    BY <2>3, <2>4
<1>2. QED
  BY <1>1, InitFresh, NextFresh, OrderInvariant, ScanInvariant, TypeCorrect, PTL DEF Spec

-----------------------------------------------------------------------------
(* The scan in a statement is a scan.                                      *)

LEMMA InitScan == StatementInit => Init
BY DEF StatementInit

LEMMA StepScan == [StatementNext]_allVars => [Next]_vars
<1> SUFFICES ASSUME [StatementNext]_allVars PROVE [Next]_vars
  OBVIOUS
<1>1. ASSUME NEW r \in Rows, NEW alive \in BOOLEAN, Edit(r, alive) PROVE Next
  BY <1>1 DEF Edit, Next
<1>2. ASSUME NEW r \in Rows, Apply(r) PROVE [Next]_vars
  <2>1. CASE Target(r) = {} /\ UNCHANGED vars
    BY <2>1
  <2>2. ASSUME NEW n \in Target(r), Change(n, kind # "delete") PROVE Next
    <3>1. n \in Rows
      BY DEF Target
    <3>2. (kind # "delete") \in BOOLEAN
      OBVIOUS
    <3>3. QED
      BY <2>2, <3>1, <3>2 DEF Next
  <2>3. QED
    BY <1>2, <2>1, <2>2 DEF Apply
<1>3. CASE Source
  BY <1>3 DEF Source, Next
<1>4. CASE StatementFails \/ StatementOver
  BY <1>4 DEF StatementFails, StatementOver, Next
<1>5. CASE Write \/ UNCHANGED allVars
  BY <1>5 DEF Write, allVars
<1>6. QED
  BY <1>1, <1>2, <1>3, <1>4, <1>5 DEF StatementNext

\* A statement drives its scan as CodaScan allows: the writes it sends are changes
\* like any other user's.
THEOREM StatementScans == StatementSpec => Spec
BY InitScan, StepScan, PTL DEF StatementSpec, Spec

\* What a statement reads was in the table, its own writes included.
THEOREM StatementReadsLiveRows == StatementSpec => []EmittedWasLive
BY StatementScans, OnlyLiveRows, PTL

\* Its scan loses no row that stays.
THEOREM StatementLosesNoRow == StatementSpec => []NoLostRow
BY StatementScans, NothingLost, PTL

\* Its sync check leaves nothing stale that was last changed before it began.
THEOREM StatementFreshWhenDone == StatementSpec => []FreshAtSync
BY StatementScans, FreshWhenDone, PTL

\* It meets a row a second time only if the row was changed since it began.
THEOREM StatementCopiesAreOfChanged == StatementSpec => []CopiesOnlyOfChanged
BY StatementScans, CopiesAreOfChanged, PTL
-----------------------------------------------------------------------------
(* What the sink has done.                                                 *)

\* Only rows written have writes pending.
PendingIsWritten == \A r \in Rows : pending[r] > 0 => r \in Written

\* A row that was there, was not written and was left alone is still there.
UnwrittenStays == Began \ touched \subseteq stable \cup Written

\* An empty vector is returned only when the sink has taken all before it.
SinkInStep ==
    /\ phase \notin {"idle", "closed", "failed"} /\ out_row = 0 => SinkDone
    /\ phase = "done" => SinkDone

\* A DELETE makes no new version, other users do.
NewVersionsAreEdits == kind = "delete" => \A v \in exposed : v.stamp > 0 => v.id \in touched

SinkInv == StatementTypeOK /\ PendingIsWritten /\ UnwrittenStays /\ SinkInStep /\ NewVersionsAreEdits

LEMMA InitSink == StatementInit /\ TypeOK => SinkInv
<1> SUFFICES ASSUME StatementInit, TypeOK PROVE SinkInv
  OBVIOUS
<1>1. Init /\ sent = 0 /\ Len(out) = 0 /\ out = <<>>
  BY DEF StatementInit, Init
<1>2. 0 \in 0..MaxEdits
  BY StatementAssumption
<1>3. StatementTypeOK
  BY <1>1, <1>2 DEF StatementInit, StatementTypeOK
<1>4. PendingIsWritten
  BY DEF StatementInit, PendingIsWritten
<1>5. UnwrittenStays
  <2>1. \A v \in exposed : v.id \in stable
    BY <1>1 DEF Init
  <2>2. QED
    BY <2>1 DEF UnwrittenStays, Began
<1>6. SinkInStep
  BY <1>1 DEF SinkInStep, Init, SinkDone
<1>7. NewVersionsAreEdits
  BY <1>1 DEF NewVersionsAreEdits, Init
<1>8. QED
  BY <1>3, <1>4, <1>5, <1>6, <1>7 DEF SinkInv

\* A change leaves what the statement began with, and takes no other row away.
LEMMA ChangeLeaves ==
    ASSUME TypeOK, NEW r \in Rows, NEW alive \in BOOLEAN, Change(r, alive)
    PROVE  /\ Began' = Began /\ stable \ {r} \subseteq stable' /\ (alive => stable' = stable)
           /\ \A v \in exposed' : v \in exposed \/ (alive /\ v.id = r /\ v.stamp > 0)
           /\ UNCHANGED <<out, out_row, phase, rows, scan_finished, synced>>
<1>1. /\ exposed' = IF alive THEN exposed \cup {[id |-> r, stamp |-> clock + 1]} ELSE exposed
      /\ stable' = IF alive THEN stable ELSE stable \ {r}
      /\ UNCHANGED <<out, out_row, phase, rows, scan_finished, synced>>
  BY DEF Change, vectors, wire
<1>2. clock + 1 > 0
  BY DEF TypeOK
<1>3. \A v \in exposed' : v \in exposed \/ (alive /\ v.id = r /\ v.stamp > 0)
  BY <1>1, <1>2
<1>4. exposed \subseteq exposed'
  BY <1>1
<1>5. {v \in exposed' : v.stamp = 0} = {v \in exposed : v.stamp = 0}
  <2>1. \A v \in exposed' : v.stamp > 0 => v.stamp # 0
    OBVIOUS
  <2>2. QED
    BY <1>3, <1>4, <2>1
<1>6. Began' = Began
  BY <1>5 DEF Began
<1>7. QED
  BY <1>1, <1>3, <1>6

LEMMA EditKeepsSink ==
    ASSUME SinkInv, TypeOK', NEW r \in Rows, NEW alive \in BOOLEAN, Edit(r, alive)
    PROVE  SinkInv'
<1>1. /\ Began' = Began /\ stable \ {r} \subseteq stable'
      /\ \A v \in exposed' : v \in exposed \/ (alive /\ v.id = r /\ v.stamp > 0)
      /\ UNCHANGED <<out, out_row, phase>>
  BY ChangeLeaves DEF SinkInv, StatementTypeOK, Edit
<1>2. /\ edits < MaxEdits /\ edits' = edits + 1 /\ touched' = touched \cup {r}
      /\ UNCHANGED <<kind, sent, pending>>
  BY DEF Edit
<1>3. Written' = Written /\ (SinkDone' <=> SinkDone)
  BY <1>1, <1>2 DEF Written, SinkDone
<1>4. StatementTypeOK'
  <2>1. edits' \in 0..MaxEdits
    BY <1>2, StatementAssumption DEF SinkInv, StatementTypeOK
  <2>2. QED
    BY <1>1, <1>2, <2>1 DEF SinkInv, StatementTypeOK
<1>5. PendingIsWritten' /\ UnwrittenStays' /\ SinkInStep' /\ NewVersionsAreEdits'
  BY <1>1, <1>2, <1>3 DEF SinkInv, PendingIsWritten, UnwrittenStays, SinkInStep, NewVersionsAreEdits
<1>6. QED
  BY <1>4, <1>5 DEF SinkInv

LEMMA ApplyKeepsSink ==
    ASSUME SinkInv, TypeOK', NEW r \in Rows, Apply(r)
    PROVE  SinkInv'
<1>1. /\ pending[r] > 0 /\ pending' = [pending EXCEPT ![r] = pending[r] - 1]
      /\ UNCHANGED <<kind, sent, edits, touched>>
  BY DEF Apply
<1>2. r \in Written
  BY <1>1 DEF SinkInv, PendingIsWritten
<1>3. /\ Began' = Began /\ stable \subseteq stable' \cup Written
      /\ (kind = "delete" => \A v \in exposed' : v \in exposed)
      /\ UNCHANGED <<out, out_row, phase>>
  <2>1. CASE UNCHANGED vars
    BY <2>1 DEF vars, server, vectors, Began
  <2>2. ASSUME NEW n \in Target(r), Change(n, kind # "delete")
        PROVE  /\ Began' = Began /\ stable \subseteq stable' \cup Written
               /\ (kind = "delete" => \A v \in exposed' : v \in exposed)
               /\ UNCHANGED <<out, out_row, phase>>
    <3>1. n \in Rows /\ (kind # "insert" => n = r)
      BY DEF Target
    <3>2. (kind # "delete") \in BOOLEAN
      OBVIOUS
    <3>3. /\ Began' = Began /\ stable \ {n} \subseteq stable' /\ (kind # "delete" => stable' = stable)
          /\ \A v \in exposed' : v \in exposed \/ ((kind # "delete") /\ v.id = n /\ v.stamp > 0)
          /\ UNCHANGED <<out, out_row, phase>>
      BY <2>2, <3>1, <3>2, ChangeLeaves DEF SinkInv, StatementTypeOK
    <3>4. QED
      BY <1>2, <3>1, <3>3
  <2>3. QED
    BY <2>1, <2>2 DEF Apply
<1>4. Written' = Written /\ (SinkDone' <=> SinkDone)
  BY <1>1, <1>3 DEF Written, SinkDone
<1>5. pending' \in [Rows -> Nat] /\ \A n \in Rows : pending'[n] > 0 => pending[n] > 0
  BY <1>1 DEF SinkInv, StatementTypeOK
<1>6. StatementTypeOK'
  BY <1>1, <1>3, <1>5 DEF SinkInv, StatementTypeOK
<1>7. PendingIsWritten' /\ UnwrittenStays' /\ SinkInStep' /\ NewVersionsAreEdits'
  BY <1>1, <1>3, <1>4, <1>5 DEF SinkInv, PendingIsWritten, UnwrittenStays, SinkInStep,
                                NewVersionsAreEdits
<1>8. QED
  BY <1>6, <1>7 DEF SinkInv

LEMMA WriteKeepsSink ==
    ASSUME SinkInv, TypeOK', Write
    PROVE  SinkInv'
<1>1. /\ phase = "idle" /\ sent # Len(out)
      /\ pending' = [r \in Rows |->
             pending[r] + Cardinality({i \in RequestRows : out[i].id = r})]
      /\ sent' = sent + Cardinality(RequestRows)
      /\ UNCHANGED <<vars, kind, edits, touched>>
  BY DEF Write, SinkDone
<1>2. UNCHANGED <<out, out_row, phase, exposed, stable>>
  BY <1>1 DEF vars, server, vectors
<1>3. Len(out) \in Nat /\ sent \in Nat /\ sent < Len(out)
  <2>1. TypeOK /\ sent \in 0..Len(out)
    BY DEF SinkInv, StatementTypeOK
  <2>2. Len(out) \in Nat
    BY <2>1, OutputType
  <2>3. QED
    BY <1>1, <2>1, <2>2
<1>4. /\ IsFiniteSet(RequestRows) /\ sent' \in 0..Len(out) /\ sent <= sent'
      /\ RequestRows \subseteq 1..sent'
  <2>1. CASE kind = "update"
    <3>1. RequestRows = {sent + 1}
      BY <2>1 DEF RequestRows
    <3>2. IsFiniteSet(RequestRows) /\ Cardinality(RequestRows) = 1
      BY <3>1, FS_Singleton
    <3>3. QED
      BY <1>1, <1>3, <3>1, <3>2
  <2>2. CASE kind # "update"
    <3>1. RequestRows = (sent + 1)..Len(out)
      BY <2>2 DEF RequestRows
    <3>2. IsFiniteSet(RequestRows) /\ Cardinality(RequestRows) = Len(out) - (sent + 1) + 1
      BY <1>3, <3>1, FS_Interval
    <3>3. sent' = Len(out)
      BY <1>1, <1>3, <3>2
    <3>4. QED
      BY <1>3, <3>1, <3>2, <3>3
  <2>3. QED
    BY <2>1, <2>2
<1>5. Written \subseteq Written'
  BY <1>2, <1>3, <1>4 DEF Written
<1>6. ASSUME NEW r \in Rows
      PROVE  /\ pending'[r] \in Nat
             /\ pending'[r] > 0 => r \in Written'
  <2> DEFINE S == {i \in RequestRows : out[i].id = r}
  <2>1. IsFiniteSet(S) /\ Cardinality(S) \in Nat
    BY <1>4, FS_Subset, FS_CardinalityType
  <2>2. pending'[r] = pending[r] + Cardinality(S) /\ pending[r] \in Nat
    BY <1>1 DEF SinkInv, StatementTypeOK
  <2>3. CASE S = {}
    <3>1. Cardinality(S) = 0
      BY <2>3, FS_EmptySet
    <3>2. QED
      BY <1>5, <2>2, <3>1 DEF SinkInv, PendingIsWritten
  <2>4. CASE S # {}
    <3>1. PICK i \in RequestRows : out[i].id = r
      BY <2>4
    <3>2. r \in Written'
      BY <1>2, <1>4, <3>1 DEF Written
    <3>3. QED
      BY <2>1, <2>2, <3>2
  <2>5. QED
    BY <2>3, <2>4
<1>7. StatementTypeOK'
  <2>1. pending' \in [Rows -> Nat]
    BY <1>1, <1>6
  <2>2. QED
    BY <1>1, <1>2, <1>4, <2>1 DEF SinkInv, StatementTypeOK
<1>8. Began' = Began
  BY <1>2 DEF Began
<1>9. PendingIsWritten' /\ UnwrittenStays' /\ SinkInStep' /\ NewVersionsAreEdits'
  BY <1>1, <1>2, <1>5, <1>6, <1>8 DEF SinkInv, PendingIsWritten, UnwrittenStays, SinkInStep,
                                      NewVersionsAreEdits
<1>10. QED
  BY <1>7, <1>9 DEF SinkInv

\* Steps of the scan that put out no row.
LEMMA StillKeepsSink ==
    ASSUME SinkInv, TypeOK', UNCHANGED <<exposed, stable, out, statementVars>>,
           SinkInStep'
    PROVE  SinkInv'
<1>1. UNCHANGED <<kind, sent, pending, edits, touched>>
  BY DEF statementVars
<1>2. Written' = Written /\ Began' = Began
  BY <1>1 DEF Written, Began
<1>3. QED
  BY <1>1, <1>2 DEF SinkInv, StatementTypeOK, PendingIsWritten, UnwrittenStays, NewVersionsAreEdits

LEMMA SourceKeepsSink ==
    ASSUME SinkInv, TypeOK', Source
    PROVE  SinkInv'
<1>1. Scan /\ UNCHANGED statementVars /\ (phase = "idle" => SinkDone)
  BY DEF Source
<1>2. UNCHANGED <<kind, sent, pending, edits, touched>>
  BY <1>1 DEF statementVars
<1>3. CASE ScanCall
  BY <1>1, <1>2, <1>3, StillKeepsSink DEF ScanCall, server, SinkInStep, SinkDone
<1>4. CASE ReturnChunk
  <2>1. UNCHANGED <<exposed, stable, out, out_row>> /\ phase = "filling"
        /\ phase' = IF out_row = 0 THEN "done" ELSE "idle"
    BY <1>4 DEF ReturnChunk, server, vectors
  <2>2. SinkInStep'
    BY <1>2, <2>1 DEF SinkInv, SinkInStep, SinkDone
  <2>3. QED
    BY <1>1, <2>1, <2>2, StillKeepsSink
<1>5. CASE SendRequest \/ Serve \/ HandleResponse
  <2>1. UNCHANGED <<exposed, stable, out, out_row>> /\ phase \notin {"idle", "closed", "failed"}
        /\ phase' # "done"
    BY <1>5 DEF SendRequest, NeedsBatch, Serve, HandleResponse, server, vectors
  <2>2. SinkInStep'
    BY <1>2, <2>1 DEF SinkInv, SinkInStep, SinkDone
  <2>3. QED
    BY <1>1, <2>1, <2>2, StillKeepsSink
<1>6. CASE EmitRow
  <2>1. PICK v \in rows : out' = Append(out, v)
    BY <1>6 DEF EmitRow
  <2>2. /\ UNCHANGED <<exposed, stable>> /\ phase' \in {"idle", "filling"}
        /\ out_row' = out_row + 1 /\ out_row \in Nat
    BY <1>6 DEF EmitRow, server, SinkInv, StatementTypeOK, TypeOK
  <2>3. /\ Len(out) \in Nat /\ Len(out') = Len(out) + 1
        /\ \A i \in 1..Len(out) : out'[i] = out[i]
    <3>1. out \in Seq(Version) /\ v \in Version
      BY DEF SinkInv, StatementTypeOK, TypeOK
    <3>2. QED
      BY <2>1, <3>1
  <2>4. Written' = Written /\ Began' = Began
    <3>1. \A i \in 1..sent : i \in 1..Len(out)
      BY <2>3 DEF SinkInv, StatementTypeOK
    <3>2. QED
      BY <1>2, <2>2, <2>3, <3>1 DEF Written, Began
  <2>5. StatementTypeOK'
    <3>1. sent' \in 0..Len(out')
      BY <1>2, <2>3 DEF SinkInv, StatementTypeOK
    <3>2. QED
      BY <1>2, <3>1 DEF SinkInv, StatementTypeOK
  <2>6. SinkInStep'
    BY <2>2 DEF SinkInStep
  <2>7. QED
    BY <1>2, <2>2, <2>4, <2>5, <2>6 DEF SinkInv, PendingIsWritten, UnwrittenStays, NewVersionsAreEdits
<1>7. QED
  BY <1>1, <1>3, <1>4, <1>5, <1>6 DEF Scan

LEMMA NextSink == SinkInv /\ TypeOK' /\ [StatementNext]_allVars => SinkInv'
<1> SUFFICES ASSUME SinkInv, TypeOK', [StatementNext]_allVars PROVE SinkInv'
  OBVIOUS
<1>1. CASE StatementFails
  <2>1. UNCHANGED <<exposed, stable, out, statementVars>> /\ phase' \in {"failed", "closed"}
    BY <1>1 DEF StatementFails, Fail, Close, server, vectors
  <2>2. QED
    BY <2>1, StillKeepsSink DEF SinkInStep
<1>2. CASE StatementOver \/ UNCHANGED allVars
  <2>1. UNCHANGED <<vars, statementVars>>
    BY <1>2 DEF StatementOver, Over, allVars
  <2>2. UNCHANGED <<exposed, stable, out, out_row, phase, sent>>
    BY <2>1 DEF vars, server, vectors, statementVars
  <2>3. SinkInStep'
    BY <2>2 DEF SinkInv, SinkInStep, SinkDone
  <2>4. QED
    BY <2>1, <2>2, <2>3, StillKeepsSink
<1>3. QED
  BY <1>1, <1>2, EditKeepsSink, ApplyKeepsSink, WriteKeepsSink, SourceKeepsSink DEF StatementNext

\* The scan and the sink stay in step throughout a statement.
THEOREM SinkInvariant == StatementSpec => []SinkInv
<1>1. StatementSpec => []TypeOK
  BY StatementScans, TypeCorrect, PTL
<1>2. QED
  BY <1>1, InitSink, NextSink, PTL DEF StatementSpec

\* Every variable of a statement stays in its type, and the sink is never ahead of
\* the scan.
THEOREM StatementTypeCorrect == StatementSpec => []StatementTypeOK
<1>1. SinkInv => StatementTypeOK
  BY DEF SinkInv
<1>2. QED
  BY <1>1, SinkInvariant, PTL

\* A statement that ends normally has written every row that was there and that
\* nobody else changed, whatever its own writes did to the listing.
THEOREM AllRowsWritten == StatementSpec => []EveryRowIsWritten
<1>1. SinkInv /\ NoLostRow => EveryRowIsWritten
  <2> SUFFICES ASSUME SinkInv, NoLostRow, phase = "done", ~LimitReached
               PROVE  Began \ touched \subseteq Written
    BY DEF EveryRowIsWritten
  <2>1. stable \subseteq Delivered
    BY DEF NoLostRow
  <2>2. Delivered = Written
    BY OutputType DEF SinkInv, SinkInStep, SinkDone, Delivered, Written, StatementTypeOK
  <2>3. QED
    BY <2>1, <2>2 DEF SinkInv, UnwrittenStays
<1>2. QED
  BY <1>1, SinkInvariant, StatementLosesNoRow, PTL

\* A DELETE writes a row twice only if another user edited it meanwhile.
THEOREM DeletesCountOnce == StatementSpec => []DeletesOnce
<1>1. SinkInv /\ CopiesOnlyOfChanged /\ EmittedWasLive => DeletesOnce
  <2> SUFFICES ASSUME SinkInv, CopiesOnlyOfChanged, EmittedWasLive, kind = "delete",
                      NEW i \in 1..sent, NEW j \in 1..sent, i < j, out[i].id = out[j].id
               PROVE  out[i].id \in touched
    BY DEF DeletesOnce
  <2>1. i \in DOMAIN out /\ j \in DOMAIN out
    BY OutputType DEF SinkInv, StatementTypeOK
  <2>2. out[j].stamp > 0 /\ out[j] \in exposed
    BY <2>1 DEF CopiesOnlyOfChanged, EmittedWasLive
  <2>3. QED
    BY <2>2 DEF SinkInv, NewVersionsAreEdits
<1>2. QED
  BY <1>1, SinkInvariant, StatementCopiesAreOfChanged, StatementReadsLiveRows, PTL

-----------------------------------------------------------------------------
(* A statement that fits in a vector.                                      *)

\* Why DuckDB has got a vector: it is full, or it is the last one with rows.
VectorInv ==
    /\ out_row <= Len(out)
    /\ phase = "idle" => scan_finished \/ out_row = VectorSize \/ out = <<>>

LEMMA NextVector == TypeOK /\ VectorInv /\ [Next]_vars => VectorInv'
<1> SUFFICES ASSUME TypeOK, VectorInv, [Next]_vars PROVE VectorInv'
  OBVIOUS
<1>1. Len(out) \in Nat /\ out_row \in Nat
  BY OutputType, ScanAssumption DEF TypeOK
<1>2. CASE ScanCall
  BY <1>1, <1>2 DEF ScanCall, VectorInv
<1>3. CASE EmitRow
  <2>1. PICK v \in rows : out' = Append(out, v)
    BY <1>3 DEF EmitRow
  <2>2. Len(out') = Len(out) + 1
    <3>1. out \in Seq(Version) /\ v \in Version
      BY DEF TypeOK
    <3>2. QED
      BY <2>1, <3>1
  <2>3. out_row' = out_row + 1 /\ (phase' = "idle" => scan_finished')
    BY <1>3 DEF EmitRow
  <2>4. QED
    BY <1>1, <2>2, <2>3 DEF VectorInv
<1>4. CASE ReturnChunk
  BY <1>4 DEF ReturnChunk, vectors, VectorInv
<1>5. CASE HandleResponse \/ SendRequest \/ Serve
  BY <1>5 DEF HandleResponse, SendRequest, Serve, vectors, VectorInv
<1>6. CASE UNCHANGED vectors /\ (phase' = "idle" => phase = "idle")
  BY <1>6 DEF vectors, VectorInv
<1>7. ASSUME NEW r \in Rows, NEW alive \in BOOLEAN, Change(r, alive)
      PROVE  UNCHANGED vectors /\ (phase' = "idle" => phase = "idle")
  BY <1>7 DEF Change
<1>8. CASE Fail \/ Close \/ Over \/ UNCHANGED vars
  BY <1>6, <1>8 DEF Fail, Close, Over, vars
<1>9. QED
  BY <1>2, <1>3, <1>4, <1>5, <1>6, <1>7, <1>8 DEF Next, Scan

\* Before the first change a scan has delivered each row once at most.
LEMMA AtMostTheTable ==
    ASSUME TypeOK, ScanInv, OrderInv, clock = 0
    PROVE  /\ \A v \in exposed : v.stamp = 0
           /\ Len(out) <= Cardinality(Began)
<1>1. \A v \in exposed : v.stamp = 0
  <2>1. \A v \in exposed : v.id \in Rows /\ v.stamp \in Nat
    BY DEF TypeOK, Version
  <2>2. \A r \in Rows : stamp[r] \in Nat
    BY DEF TypeOK
  <2>3. QED
    BY <2>1, <2>2 DEF OrderInv, WireInv, Dated
<1>2. \A i \in 1..Len(out) : out[i] \in exposed /\ out[i].stamp = 0
  BY <1>1, OutputType DEF ScanInv, StreamExposed, EmittedWasLive
<1>3. PICK n \in 0..Len(out) : Ordered(n)
  BY DEF OrderInv, Staged
<1>4. Len(out) \in Nat /\ \A i \in 1..Len(out) : out[i].id \in Nat
  BY OutputType
<1>5. n = Len(out)
  <2>1. ASSUME n < Len(out) PROVE FALSE
    <3>1. Len(out) \in (n + 1)..Len(out) /\ Len(out) \in 1..Len(out)
      BY <1>3, <1>4, <2>1
    <3>2. out[Len(out)].stamp > 0
      BY <1>3, <3>1 DEF Ordered
    <3>3. QED
      BY <1>2, <3>1, <3>2
  <2>2. QED
    BY <1>3, <1>4, <2>1
<1>6. \A i, j \in 1..Len(out) : i < j => out[i].id < out[j].id
  BY <1>3, <1>5 DEF Ordered
<1>7. IsFiniteSet(Began)
  <2>1. Began \subseteq Rows
    BY DEF Began, TypeOK, Version
  <2>2. IsFiniteSet(Rows)
    BY ScanAssumption, FS_Interval DEF Rows
  <2>3. QED
    BY <2>1, <2>2, FS_Subset
<1> DEFINE f == [i \in 1..Len(out) |-> out[i].id]
<1>8. f \in Injection(1..Len(out), Began)
  <2>1. \A i \in 1..Len(out) : f[i] \in Began
    BY <1>2 DEF Began
  <2>2. \A i, j \in 1..Len(out) : f[i] = f[j] => i = j
    <3> SUFFICES ASSUME NEW i \in 1..Len(out), NEW j \in 1..Len(out), out[i].id = out[j].id
                 PROVE  i = j
      OBVIOUS
    <3>1. ~(i < j) /\ ~(j < i)
      BY <1>4, <1>6
    <3>2. QED
      BY <1>4, <3>1
  <2>3. QED
    BY <2>1, <2>2 DEF Injection, IsInjective
<1> HIDE DEF f
<1>9. Cardinality(1..Len(out)) = Len(out)
  <2>1. \A m \in Nat : Cardinality(1..m) = m
    <3> SUFFICES ASSUME NEW m \in Nat PROVE Cardinality(1..m) = m
      OBVIOUS
    <3>1. 1 \in Int /\ m \in Int
      OBVIOUS
    <3>2. Cardinality(1..m) = IF 1 > m THEN 0 ELSE m - 1 + 1
      BY <3>1, FS_Interval
    <3>3. QED
      BY <3>2
  <2>2. QED
    BY <1>4, <2>1
<1>10. QED
  BY <1>1, <1>7, <1>8, <1>9, FS_Injection

\* As long as nothing is written the table does not change; once something is,
\* the scan makes no request any more.
Untaken == clock = 0 /\ sent = 0 /\ \A r \in Rows : pending[r] = 0
Spent ==
    /\ scan_finished /\ phase \notin {"requesting", "sent", "served"}
    /\ \A i \in DOMAIN out : out[i].stamp = 0
    /\ \A v \in rows : v.stamp = 0

OwnInv == edits = 0 /\ Cardinality(Began) < VectorSize => Untaken \/ Spent

AllInv == TypeOK /\ ScanInv /\ OrderInv /\ VectorInv /\ SinkInv

LEMMA SpentStays ==
    ASSUME TypeOK, Spent, Scan
    PROVE  Spent'
<1>1. CASE ScanCall
  BY <1>1 DEF Spent, ScanCall
<1>2. CASE EmitRow
  <2>1. PICK v \in rows : rows' = rows \ {v} /\ out' = Append(out, v)
    BY <1>2 DEF EmitRow
  <2>2. \A i \in DOMAIN out' : out'[i] = v \/ \E j \in DOMAIN out : out'[i] = out[j]
    BY <2>1, AppendDelivers DEF TypeOK
  <2>3. scan_finished' /\ phase' \in {"idle", "filling"}
    BY <1>2 DEF EmitRow, Spent
  <2>4. QED
    BY <2>1, <2>2, <2>3 DEF Spent
<1>3. CASE ReturnChunk
  BY <1>3 DEF Spent, ReturnChunk, vectors
<1>4. ~SendRequest /\ ~Serve /\ ~HandleResponse
  BY DEF Spent, SendRequest, NeedsBatch, Serve, HandleResponse
<1>5. QED
  BY <1>1, <1>2, <1>3, <1>4 DEF Scan

LEMMA NextOwn == AllInv /\ OwnInv /\ [StatementNext]_allVars => OwnInv'
<1> SUFFICES ASSUME AllInv, OwnInv, [StatementNext]_allVars,
                    edits' = 0, Cardinality(Began') < VectorSize
             PROVE  (Untaken \/ Spent)'
  BY DEF OwnInv
<1> USE DEF AllInv
<1>1. edits \in Nat /\ \A r \in Rows : pending[r] \in Nat
  BY StatementAssumption DEF SinkInv, StatementTypeOK
<1>2. ASSUME NEW r \in Rows, NEW alive \in BOOLEAN, Edit(r, alive) PROVE FALSE
  BY <1>1, <1>2 DEF Edit
<1>3. ASSUME NEW r \in Rows, Apply(r) PROVE Spent'
  <2>1. pending[r] > 0 /\ UNCHANGED edits
    BY <1>3 DEF Apply
  <2>2. Began' = Began /\ UNCHANGED <<out, rows, scan_finished, phase>>
    <3>1. CASE UNCHANGED vars
      BY <3>1 DEF vars, server, vectors, Began
    <3>2. ASSUME NEW n \in Target(r), Change(n, kind # "delete")
          PROVE  Began' = Began /\ UNCHANGED <<out, rows, scan_finished, phase>>
      <4>1. n \in Rows /\ (kind # "delete") \in BOOLEAN
        BY DEF Target
      <4>2. QED
        BY <3>2, <4>1, ChangeLeaves
    <3>3. QED
      BY <1>3, <3>1, <3>2 DEF Apply
  <2>3. Untaken \/ Spent
    BY <2>1, <2>2 DEF OwnInv
  <2>4. ~Untaken
    BY <2>1 DEF Untaken
  <2>5. QED
    BY <2>2, <2>3, <2>4 DEF Spent
<1>4. ASSUME UNCHANGED statementVars, Scan PROVE (Untaken \/ Spent)'
  <2>1. UNCHANGED <<exposed, clock, edits, sent, pending>>
    BY <1>4 DEF statementVars, Scan, ScanCall, EmitRow, ReturnChunk, SendRequest, Serve,
                HandleResponse, server
  <2>2. Began' = Began
    BY <2>1 DEF Began
  <2>3. Untaken => Untaken'
    BY <2>1 DEF Untaken
  <2>4. Spent => Spent'
    BY <1>4, SpentStays
  <2>5. QED
    BY <2>1, <2>2, <2>3, <2>4 DEF OwnInv
<1>5. CASE Write
  <2>1. phase = "idle" /\ sent # Len(out) /\ UNCHANGED <<vars, edits>>
    BY <1>5 DEF Write, SinkDone
  <2>2. UNCHANGED <<out, rows, scan_finished, phase, exposed>> /\ Began' = Began
    BY <2>1 DEF vars, server, vectors, Began
  <2>3. Spent => Spent'
    BY <2>2 DEF Spent
  <2>4. Untaken => Spent
    <3> SUFFICES ASSUME Untaken PROVE Spent
      OBVIOUS
    <3>1. (\A v \in exposed : v.stamp = 0) /\ Len(out) <= Cardinality(Began)
      BY AtMostTheTable DEF Untaken
    <3>2. Len(out) \in Nat /\ out_row \in Nat /\ VectorSize \in Nat
      BY OutputType, ScanAssumption DEF TypeOK
    <3>3. Cardinality(Began) \in Nat
      <4>1. Began \subseteq Rows
        BY DEF Began, TypeOK, Version
      <4>2. IsFiniteSet(Rows)
        BY ScanAssumption, FS_Interval DEF Rows
      <4>3. QED
        BY <4>1, <4>2, FS_Subset, FS_CardinalityType
    <3>4. out_row # VectorSize
      BY <2>2, <3>1, <3>2, <3>3 DEF VectorInv
    <3>5. out # <<>>
      BY <2>1 DEF Untaken
    <3>6. scan_finished
      BY <2>1, <3>4, <3>5 DEF VectorInv
    <3>7. QED
      BY <2>1, <3>1, <3>6 DEF Spent, ScanInv, StreamExposed, EmittedWasLive
  <2>5. QED
    BY <2>1, <2>2, <2>3, <2>4 DEF OwnInv
<1>6. CASE StatementFails \/ StatementOver \/ UNCHANGED allVars
  <2>1. UNCHANGED <<exposed, clock, out, rows, scan_finished, edits, sent, pending>>
        /\ phase' \in {phase, "failed", "closed"}
    BY <1>6 DEF StatementFails, StatementOver, Fail, Close, Over, allVars, vars, server, vectors,
                statementVars
  <2>2. Began' = Began
    BY <2>1 DEF Began
  <2>3. QED
    BY <2>1, <2>2 DEF OwnInv, Untaken, Spent
<1>7. QED
  BY <1>2, <1>3, <1>4, <1>5, <1>6 DEF StatementNext, Source

\* A statement that fits in a vector, on a table nobody else edits, never reads
\* what it wrote.
THEOREM OwnWritesUnread == StatementSpec => []NeverReadsOwnWrites
<1>1. StatementInit => VectorInv /\ OwnInv
  <2> SUFFICES ASSUME StatementInit PROVE VectorInv /\ Untaken
    BY DEF OwnInv
  <2>1. Init /\ Len(out) = 0
    BY DEF StatementInit, Init
  <2>2. QED
    BY <2>1 DEF StatementInit, Init, VectorInv, Untaken
<1>2. AllInv /\ OwnInv => NeverReadsOwnWrites
  <2> SUFFICES ASSUME AllInv, OwnInv, edits = 0, Cardinality(Began) < VectorSize,
                      NEW i \in DOMAIN out
               PROVE  out[i].stamp = 0
    BY DEF NeverReadsOwnWrites
  <2>1. CASE Spent
    BY <2>1 DEF Spent
  <2>2. CASE Untaken
    <3>1. \A v \in exposed : v.stamp = 0
      BY <2>2, AtMostTheTable DEF AllInv, Untaken
    <3>2. QED
      BY <3>1 DEF AllInv, ScanInv, StreamExposed, EmittedWasLive
  <2>3. QED
    BY <2>1, <2>2 DEF OwnInv
<1>3. StatementSpec => []VectorInv
  <2>1. StatementSpec => []TypeOK
    BY StatementScans, TypeCorrect, PTL
  <2>2. QED
    BY <1>1, <2>1, NextVector, StepScan, PTL DEF StatementSpec
<1>4. StatementSpec => []AllInv
  <2>1. TypeOK /\ ScanInv /\ OrderInv /\ VectorInv /\ SinkInv => AllInv
    BY DEF AllInv
  <2>2. QED
    BY <1>3, <2>1, StatementScans, TypeCorrect, ScanInvariant, OrderInvariant, SinkInvariant, PTL
<1>5. QED
  BY <1>1, <1>2, <1>4, NextOwn, PTL DEF StatementSpec
=============================================================================
