-------------------------- MODULE DataManager_proofs ------------------------
(***************************************************************************)
(* DataManager checks refCnt_ once, when a request has taken the mutex.    *)
(* The proof that the check stays true until the request lets go of the    *)
(* mutex, for any number of callers, requests and OnStop / OnStart pairs,  *)
(* and whichever way the mutex prefers.                                    *)
(***************************************************************************)
EXTENDS DataManager, FiniteSetTheorems, TLAPS

Fields == {"place", "kind", "table", "path", "video", "id", "file", "found", "ret"}

(* What the proof needs of the shape of the state: every client has a request, and every     *)
(* request has the fields the actions write.                                                 *)
Requests ==
    /\ op = [c \in Clients |-> op[c]]
    /\ \A c \in Clients : DOMAIN op[c] = Fields

Shape == shared \in [Clients -> 0 .. 2] /\ Requests

Served(place) == place \notin {"idle", "lock", "done"}

(* A request that is being served holds the mutex, and another one does not. *)
HoldsWhileServed ==
    \A c \in Clients : Served(op[c].place) <=> shared[c] > 0

(* refCnt_ counts the one extension while it is up or about to be torn down, and the mutex   *)
(* is free from ClearRingtoneDataMgr to the end of the next Init.                            *)
CountsTheExtension ==
    /\ refCnt = IF ability \in {"up", "stopping"} THEN 1 ELSE 0
    /\ ability \notin {"up", "stopping"} => NoneShared

IInv == Shape /\ HoldsWhileServed /\ CountsTheExtension

-----------------------------------------------------------------------------

(* A step that takes the request of one client, and no other, to a place. *)
Moves(c, place) ==
    /\ Requests'
    /\ op'[c].place = place
    /\ \A d \in Clients \ {c} : op'[d] = op[d]

(* Replacing the request of a client by another moves it to the place of the other. *)
LEMMA Replace ==
    ASSUME Requests, NEW c \in Clients, NEW r, DOMAIN r = Fields, op' = [op EXCEPT ![c] = r]
    PROVE  Moves(c, r.place)
BY DEF Requests, Moves

(* Assigning to the fields of a request leaves it one. *)
LEMMA Assign ==
    ASSUME NEW r, DOMAIN r = Fields, NEW p, NEW v
    PROVE  /\ DOMAIN [r EXCEPT !.place = p] = Fields /\ [r EXCEPT !.place = p].place = p
           /\ DOMAIN [r EXCEPT !.found = v] = Fields /\ [r EXCEPT !.found = v].place = r.place
BY DEF Fields

(* Goto moves the request to the place it names. *)
LEMMA GotoMoves ==
    ASSUME Requests, NEW c \in Clients, NEW p, Goto(c, p)
    PROVE  Moves(c, p)
<1> DEFINE r == [op[c] EXCEPT !.place = p]
<1>1. DOMAIN r = Fields /\ r.place = p
  BY Assign DEF Requests
<1>2. op' = [op EXCEPT ![c] = r]
  BY Zenon DEF Goto, Requests
<1> QED
  BY <1>1, <1>2, Replace

(* Assigning to two fields at once, as one assignment of a record. *)
LEMMA TwoFields ==
    ASSUME Requests, NEW c \in Clients, NEW p, NEW v
    PROVE  /\ [op EXCEPT ![c].place = p, ![c].ret = v]
                = [op EXCEPT ![c] = [op[c] EXCEPT !.place = p, !.ret = v]]
           /\ [op EXCEPT ![c].place = p, ![c].id = v]
                = [op EXCEPT ![c] = [op[c] EXCEPT !.place = p, !.id = v]]
           /\ [op EXCEPT ![c].place = p, ![c].file = v]
                = [op EXCEPT ![c] = [op[c] EXCEPT !.place = p, !.file = v]]
           /\ [op EXCEPT ![c].place = p, ![c].found = v]
                = [op EXCEPT ![c] = [op[c] EXCEPT !.place = p, !.found = v]]
BY ZenonT(30) DEF Requests

(* So an assignment to one more field does not matter. *)
LEMMA GotoAndMoves ==
    ASSUME Requests, NEW c \in Clients, NEW p, NEW v,
           \/ op' = [op EXCEPT ![c].place = p, ![c].ret = v]
           \/ op' = [op EXCEPT ![c].place = p, ![c].id = v]
           \/ op' = [op EXCEPT ![c].place = p, ![c].file = v]
           \/ op' = [op EXCEPT ![c].place = p, ![c].found = v]
    PROVE  Moves(c, p)
<1>1. DOMAIN op[c] = Fields
  BY DEF Requests
<1>2. CASE op' = [op EXCEPT ![c].place = p, ![c].ret = v]
  <2> DEFINE r == [op[c] EXCEPT !.place = p, !.ret = v]
  <2>1. op' = [op EXCEPT ![c] = r]
    BY <1>2, TwoFields, Zenon
  <2>2. DOMAIN r = Fields /\ r.place = p
    BY <1>1, Zenon DEF Fields
  <2> HIDE DEF r
  <2> QED
    BY <2>1, <2>2, Replace
<1>3. CASE op' = [op EXCEPT ![c].place = p, ![c].id = v]
  <2> DEFINE r == [op[c] EXCEPT !.place = p, !.id = v]
  <2>1. op' = [op EXCEPT ![c] = r]
    BY <1>3, TwoFields, Zenon
  <2>2. DOMAIN r = Fields /\ r.place = p
    BY <1>1, Zenon DEF Fields
  <2> HIDE DEF r
  <2> QED
    BY <2>1, <2>2, Replace
<1>4. CASE op' = [op EXCEPT ![c].place = p, ![c].file = v]
  <2> DEFINE r == [op[c] EXCEPT !.place = p, !.file = v]
  <2>1. op' = [op EXCEPT ![c] = r]
    BY <1>4, TwoFields, Zenon
  <2>2. DOMAIN r = Fields /\ r.place = p
    BY <1>1, Zenon DEF Fields
  <2> HIDE DEF r
  <2> QED
    BY <2>1, <2>2, Replace
<1>5. CASE op' = [op EXCEPT ![c].place = p, ![c].found = v]
  <2> DEFINE r == [op[c] EXCEPT !.place = p, !.found = v]
  <2>1. op' = [op EXCEPT ![c] = r]
    BY <1>5, TwoFields, Zenon
  <2>2. DOMAIN r = Fields /\ r.place = p
    BY <1>1, Zenon DEF Fields
  <2> HIDE DEF r
  <2> QED
    BY <2>1, <2>2, Replace
<1> QED
  BY <1>2, <1>3, <1>4, <1>5

(* Return ends the request and gives the mutex back. *)
LEMMA ReturnMoves ==
    ASSUME Requests, NEW c \in Clients, NEW v, Return(c, v)
    PROVE  Moves(c, "done") /\ shared' = [shared EXCEPT ![c] = 0]
BY GotoAndMoves DEF Return

Held == Shape /\ HoldsWhileServed

(* A step that moves a request to a place where it is served, and holds the mutex for it,    *)
(* or to one where it is not, and does not, preserves both.                                  *)
LEMMA HeldAfter ==
    ASSUME Held, NEW c \in Clients, NEW p, Moves(c, p), NEW k \in 0 .. 2,
           shared' = [shared EXCEPT ![c] = k], Served(p) <=> k > 0
    PROVE  Held'
<1>1. Shape'
  BY DEF Held, Shape, Moves
<1>2. \A d \in Clients : Served(op'[d].place) <=> shared'[d] > 0
  BY DEF Held, Shape, HoldsWhileServed, Moves
<1> QED
  BY <1>1, <1>2 DEF Held, HoldsWhileServed

(* So does a step from one served place to another that leaves the mutex alone. *)
LEMMA HeldOn ==
    ASSUME Held, NEW c \in Clients, NEW p, Moves(c, p), UNCHANGED shared,
           Served(op[c].place) <=> Served(p)
    PROVE  Held'
<1>1. shared' = [shared EXCEPT ![c] = shared[c]] /\ shared[c] \in 0 .. 2
  BY DEF Held, Shape
<1>2. Served(p) <=> shared[c] > 0
  BY DEF Held, HoldsWhileServed
<1> QED
  BY <1>1, <1>2, HeldAfter

(* So does one that takes the mutex, for the first or the second time, to be served. *)
LEMMA HeldTaken ==
    ASSUME Held, NEW c \in Clients, NEW p, Moves(c, p), NEW k \in {1, 2},
           shared' = [shared EXCEPT ![c] = k], Served(p)
    PROVE  Held'
<1>1. k \in 0 .. 2 /\ k > 0
  OBVIOUS
<1> QED
  BY <1>1, HeldAfter

(* And one that ends the request. *)
LEMMA HeldReturn ==
    ASSUME Held, NEW c \in Clients, NEW v, Return(c, v)
    PROVE  Held'
BY HeldAfter, ReturnMoves DEF Held, Shape, Served

(* A request takes the mutex with its first step and keeps it to its last. *)
LEMMA HeldStep ==
    ASSUME Held, [Next]_vars
    PROVE  Held'
<1> USE DEF At
<1>1. CASE UNCHANGED vars \/ Ability
  BY <1>1 DEF vars, Ability, OnStop, ClearRingtoneDataMgr, OnStart, InitManager,
      Held, Shape, Requests, HoldsWhileServed
<1>2. ASSUME NEW c \in Clients, AskInsert(c) \/ AskDelete(c)
      PROVE  Held'
  <2>1. PICK r : DOMAIN r = Fields /\ r.place = "lock" /\ op' = [op EXCEPT ![c] = r]
    <3>1. CASE AskInsert(c)
      <4>1. PICK t \in Tables, q \in Paths, v \in BOOLEAN :
              op' = [op EXCEPT ![c] = [IdleOp EXCEPT !.place = "lock", !.kind = "insert",
                                          !.table = t, !.path = q, !.video = v /\ t = "ToneFiles"]]
        BY <3>1 DEF AskInsert
      <4> DEFINE r == [IdleOp EXCEPT !.place = "lock", !.kind = "insert",
                                     !.table = t, !.path = q, !.video = v /\ t = "ToneFiles"]
      <4>2. DOMAIN r = Fields /\ r.place = "lock"
        BY DEF IdleOp, Fields
      <4> QED
        BY <4>1, <4>2
    <3>2. CASE AskDelete(c)
      <4>1. PICK row \in rows, kind \in DeleteKinds :
              op' = [op EXCEPT ![c] = [IdleOp EXCEPT !.place = "lock", !.kind = kind,
                                  !.table = row.table, !.path = row.path, !.id = row.id]]
        BY <3>2 DEF AskDelete
      <4> QED
        BY <4>1 DEF IdleOp, Fields
    <3> QED
      BY <1>2, <3>1, <3>2
  <2>2. Moves(c, "lock")
    BY <2>1, Replace DEF Held, Shape
  <2>3. QED
    BY <1>2, <2>2, HeldOn DEF AskInsert, AskDelete, Served
<1>3. ASSUME NEW c \in Clients, Serve(c)
      PROVE  Held'
  <2> USE DEF Served
  <2>1. Requests
    BY DEF Held, Shape
  <2>2. CASE LockShared(c)
    <3>1. CASE \E v : Return(c, v)
      BY <3>1, HeldReturn
    <3>2. CASE \E p \in {"check", "query"} : Goto(c, p) /\ shared' = [shared EXCEPT ![c] = 1]
      <4>1. PICK p \in {"check", "query"} : Goto(c, p) /\ shared' = [shared EXCEPT ![c] = 1]
        BY <3>2
      <4>2. Moves(c, p)
        BY <2>1, <4>1, GotoMoves
      <4> QED
        BY <4>1, <4>2, HeldTaken
    <3> QED
      BY <2>2, <3>1, <3>2 DEF LockShared
  <2>3. CASE CheckVideoRingtoneSize(c)
    BY <2>1, <2>3, GotoMoves, HeldOn, HeldReturn DEF CheckVideoRingtoneSize
  <2>4. CASE InsertRow(c)
    <3>1. At(c, "row") /\ UNCHANGED shared
      BY <2>4 DEF InsertRow
    <3>2. op' = [op EXCEPT ![c].place = "asset", ![c].id = nextId[op[c].table]]
      BY <2>4 DEF InsertRow
    <3>3. Moves(c, "asset")
      BY <2>1, <3>2, GotoAndMoves
    <3> QED
      BY <3>1, <3>3, HeldOn
  <2>5. CASE InsertRowFails(c) \/ CreateFile(c) \/ Undo(c) \/ DeleteRows(c) \/ DeleteRowsFails(c)
    BY <2>5, HeldReturn DEF InsertRowFails, CreateFile, Undo, DeleteRows, DeleteRowsFails
  <2>6. CASE GetAsset(c)
    BY <2>1, <2>6, GotoAndMoves, HeldOn DEF GetAsset
  <2>7. CASE GetAssetFails(c) \/ CreateFileFails(c)
    BY <2>1, <2>7, GotoMoves, HeldOn DEF GetAssetFails, CreateFileFails
  <2>8. CASE FileExists(c)
    BY <2>1, <2>8, GotoMoves, HeldOn DEF FileExists
  <2>9. CASE UndoLock(c)
    <3>1. At(c, "undoLock") /\ Moves(c, "undo") /\ shared' = [shared EXCEPT ![c] = 2]
      BY <2>1, <2>9, GotoMoves DEF UndoLock
    <3>2. 2 \in {1, 2}
      OBVIOUS
    <3>3. Served("undo")
      OBVIOUS
    <3> QED
      BY <3>1, <3>2, <3>3, HeldTaken, Zenon
  <2>10. CASE QueryPaths(c)
    BY <2>1, <2>10, GotoMoves, GotoAndMoves, HeldOn DEF QueryPaths
  <2>11. CASE UnlinkNext(c)
    <3>1. CASE Goto(c, "delete")
      BY <2>1, <2>11, <3>1, GotoMoves, HeldOn DEF UnlinkNext
    <3>2. CASE \E p : op' = [op EXCEPT ![c].found = @ \ {p}]
      <4>1. PICK p : op' = [op EXCEPT ![c].found = @ \ {p}]
        BY <3>2
      <4> DEFINE r == [op[c] EXCEPT !.found = op[c].found \ {p}]
      <4>2. DOMAIN r = Fields /\ r.place = op[c].place
        BY <2>1, Assign DEF Requests
      <4>3. op' = [op EXCEPT ![c] = r]
        BY <2>1, <4>1 DEF Requests
      <4>4. Moves(c, op[c].place)
        BY <2>1, <4>2, <4>3, Replace
      <4> QED
        BY <2>11, <4>4, HeldOn DEF UnlinkNext
    <3> QED
      BY <2>11, <3>1, <3>2 DEF UnlinkNext
  <2>12. QED
    BY <1>3, <2>2, <2>3, <2>4, <2>5, <2>6, <2>7, <2>8, <2>9, <2>10, <2>11 DEF Serve
<1>4. QED
  BY <1>1, <1>2, <1>3 DEF Next

(* The extension is counted down only when no request holds the mutex, and no request takes  *)
(* it before it is counted again.                                                            *)
LEMMA CountStep ==
    ASSUME IInv, [Next]_vars
    PROVE  CountsTheExtension'
<1> USE DEF IInv, CountsTheExtension, NoneShared
<1>1. CASE UNCHANGED vars
  BY <1>1 DEF vars
<1>2. CASE Ability
  BY <1>2 DEF Ability, OnStop, ClearRingtoneDataMgr, OnStart, InitManager
<1>3. ASSUME NEW c \in Clients, AskInsert(c) \/ AskDelete(c)
      PROVE  CountsTheExtension'
  BY <1>3 DEF AskInsert, AskDelete
<1>4. ASSUME NEW c \in Clients, Serve(c)
      PROVE  CountsTheExtension'
  <2>1. UNCHANGED <<refCnt, ability>>
    BY <1>4 DEF Serve, LockShared, CheckVideoRingtoneSize, InsertRow, InsertRowFails, GetAsset,
        GetAssetFails, FileExists, CreateFile, CreateFileFails, UndoLock, Undo, QueryPaths,
        UnlinkNext, DeleteRows, DeleteRowsFails
  <2>2. CASE ability \in {"up", "stopping"}
    BY <2>1, <2>2
  <2>3. CASE ability \notin {"up", "stopping"}
    <3>1. refCnt = 0 /\ \A d \in Clients : shared[d] = 0 /\ op[d].place \in {"idle", "lock", "done"}
      BY <2>3 DEF Shape, HoldsWhileServed, Served
    <3>2. LockShared(c)
      BY <1>4, <3>1 DEF Serve, CheckVideoRingtoneSize, InsertRow, InsertRowFails, GetAsset,
          GetAssetFails, FileExists, CreateFile, CreateFileFails, UndoLock, Undo, QueryPaths,
          UnlinkNext, DeleteRows, DeleteRowsFails, At
    <3>3. shared' = [shared EXCEPT ![c] = 0]
      BY <3>1, <3>2 DEF LockShared, Return
    <3>4. QED
      BY <2>1, <3>1, <3>3 DEF Shape
  <2>4. QED
    BY <2>2, <2>3
<1>5. QED
  BY <1>1, <1>2, <1>3, <1>4 DEF Next

-----------------------------------------------------------------------------

(* The manager is never torn down under a request that is being served: the check of refCnt_ *)
(* at its start, and the store it stands for, are good until it lets go of the mutex.        *)
THEOREM NeverTornDownUnderARequest == Spec => []ServedWhileInitialised
<1>1. Init => IInv
  BY DEF Init, IInv, Shape, Requests, Fields, HoldsWhileServed, Served, CountsTheExtension,
      NoneShared, IdleOp
<1>2. IInv /\ [Next]_vars => IInv'
  BY HeldStep, CountStep DEF IInv, Held
<1>3. IInv => ServedWhileInitialised
  BY DEF IInv, Shape, CountsTheExtension, NoneShared, ServedWhileInitialised
<1>4. QED
  BY <1>1, <1>2, <1>3, PTL DEF Spec

-----------------------------------------------------------------------------
(* Types, ids and what a request knows *)

Op == [place : Places, kind : {"none", "insert", "byPath", "byId"},
       table : {"ToneFiles", "VibrateFiles"}, path : Paths, video : BOOLEAN, id : Ids \cup {0},
       file : Paths, found : SUBSET Paths, ret : {"none", "ok", "error"}]

(* TypeOK, but for the mutex and refCnt_, which IInv speaks of. *)
Typed ==
    /\ rows \subseteq Row
    /\ nextId \in [{"ToneFiles", "VibrateFiles"} -> Nat]
    /\ files \subseteq Paths
    /\ ability \in {"up", "stopping", "down", "starting"}
    /\ requests \in 0 .. MaxRequests
    /\ stops \in 0 .. MaxStops
    /\ op \in [Clients -> Op]

(* The requests that may still write a row: each one was counted when it was made, and the   *)
(* ids given out so far are those of the others.                                             *)
Writing(w) == w.kind = "insert" /\ w.place \in {"lock", "check", "row"}
Writers == {c \in Clients : Writing(op[c])}

IdsLast ==
    /\ IsFiniteSet(Writers)
    /\ \A t \in {"ToneFiles", "VibrateFiles"} :
         nextId[t] >= 1 /\ nextId[t] + Cardinality(Writers) <= requests + 2

(* A row's id has been given out, once for its table. *)
RowIds ==
    /\ IsFiniteSet(rows)
    /\ \A r \in rows : r.id < nextId[r.table]
    /\ \A r, q \in rows : r.table = q.table /\ r.id = q.id => r = q

(* What the record w of a request of c says, of the rows R and the next ids N. *)
Undoing == {"asset", "exists", "create", "undoLock", "undo"}
Knows(c, w, R, N) ==
    /\ w.place \in {"check", "row"} \cup Undoing => w.kind = "insert"
    /\ w.place \in {"query", "unlink", "delete"} => w.kind \in DeleteKinds
    /\ w.place = "lock" => w.kind \in DeleteKinds \cup {"insert"}
    /\ w.kind = "insert" =>
         /\ c \in Inserters /\ w.table \in Tables /\ w.id < N[w.table]
         /\ w.place \in {"lock", "check", "row"} => w.id = 0
         /\ \A r \in R : r.table = w.table /\ r.id = w.id => r.path = w.path
    /\ w.place = "unlink" /\ w.kind = "byPath" => w.found \subseteq {w.path}

Known == \A c \in Clients : Knows(c, op[c], rows, nextId)

TypeInv == Typed /\ IdsLast /\ RowIds /\ Known

-----------------------------------------------------------------------------

(* The request of c, and no other, goes on as v. *)
One(c, v) ==
    /\ v \in Op
    /\ op'[c] = v
    /\ \A d \in Clients \ {c} : op'[d] = op[d]
    /\ op' \in [Clients -> Op]

LEMMA Replaced ==
    ASSUME op \in [Clients -> Op], NEW c \in Clients, NEW v \in Op, op' = [op EXCEPT ![c] = v]
    PROVE  One(c, v)
BY DEF One

(* What a request is for does not change while it is served. *)
Same(w, v) ==
    v.kind = w.kind /\ v.table = w.table /\ v.path = w.path /\ v.video = w.video

LEMMA GotoOne ==
    ASSUME Typed, NEW c \in Clients, NEW p \in Places, Goto(c, p)
    PROVE  \E v \in Op : /\ One(c, v) /\ Same(op[c], v) /\ v.place = p
                         /\ v.id = op[c].id /\ v.file = op[c].file /\ v.found = op[c].found
<1> DEFINE w == op[c]  v == [w EXCEPT !.place = p]
<1>1. w \in Op /\ op \in [Clients -> Op]
  BY DEF Typed
<1>2. op' = [op EXCEPT ![c] = v]
  BY <1>1, Zenon DEF Goto
<1> HIDE DEF w
<1>3. v \in Op /\ Same(w, v) /\ v.place = p /\ v.id = w.id /\ v.file = w.file /\ v.found = w.found
  BY <1>1 DEF Op, Same
<1> HIDE DEF v
<1>4. One(c, v)
  BY <1>1, <1>2, <1>3, Replaced
<1> QED
  BY <1>3, <1>4 DEF w

LEMMA HasShape ==
    ASSUME op \in [Clients -> Op]
    PROVE  Requests
<1>1. op = [c \in Clients |-> op[c]]
  OBVIOUS
<1>2. \A c \in Clients : DOMAIN op[c] = Fields
  BY DEF Op, Fields
<1> QED
  BY <1>1, <1>2 DEF Requests

LEMMA ReturnOne ==
    ASSUME Typed, NEW c \in Clients, NEW ret \in {"ok", "error"}, Return(c, ret)
    PROVE  \E v \in Op : /\ One(c, v) /\ Same(op[c], v) /\ v.place = "done" /\ v.ret = ret
                         /\ v.id = op[c].id
<1> DEFINE w == op[c]  v == [w EXCEPT !.place = "done", !.ret = ret]
<1>1. w \in Op /\ op \in [Clients -> Op] /\ Requests
  BY HasShape DEF Typed
<1>2. op' = [op EXCEPT ![c] = v]
  <2>1. op' = [op EXCEPT ![c].place = "done", ![c].ret = ret]
    BY DEF Return
  <2> QED
    BY <1>1, <2>1, TwoFields, Zenon
<1> HIDE DEF w
<1>3. v \in Op /\ Same(w, v) /\ v.place = "done" /\ v.ret = ret /\ v.id = w.id
  BY <1>1 DEF Op, Same, Places
<1> HIDE DEF v
<1>4. One(c, v)
  BY <1>1, <1>2, <1>3, Replaced
<1> QED
  BY <1>3, <1>4 DEF w

-----------------------------------------------------------------------------
(* The steps, by what they do to a request and to the rows *)

Pairs == {<<"lock", "check">>, <<"lock", "query">>, <<"check", "row">>,
          <<"asset", "exists">>, <<"asset", "undoLock">>, <<"exists", "undoLock">>, <<"exists", "create">>,
          <<"create", "undoLock">>, <<"undoLock", "undo">>,
          <<"query", "unlink">>, <<"query", "delete">>, <<"unlink", "unlink">>, <<"unlink", "delete">>}

Ending == {"lock", "check", "row", "create", "undo", "delete"}

(* The request goes on from w to v without writing a row. *)
Goes(c, w, v) ==
    /\ Same(w, v) /\ v.id = w.id
    /\ w.place \notin {"idle", "done"}
    /\ (v.place = "done" /\ w.place \in Ending) \/ <<w.place, v.place>> \in Pairs
    /\ v.place = "check" => w.kind = "insert"
    /\ v.place = "query" => w.kind # "insert"
    /\ w.place = "query" /\ v.place = "unlink" => v.found = {r.path : r \in Matches(c)}
    /\ w.place = "unlink" /\ v.place = "unlink" => v.found \subseteq w.found

(* A request ends. *)
LEMMA EndGoes ==
    ASSUME Typed, NEW c \in Clients, NEW ret \in {"ok", "error"}, Return(c, ret),
           op[c].place \in Ending
    PROVE  \E v \in Op : One(c, v) /\ Goes(c, op[c], v)
<1>1. PICK v \in Op : One(c, v) /\ Same(op[c], v) /\ v.place = "done" /\ v.id = op[c].id
  BY ReturnOne, Zenon
<1>2. Goes(c, op[c], v)
  BY <1>1 DEF Goes, Ending
<1> QED
  BY <1>1, <1>2

LEMMA GotoGoes ==
    ASSUME Typed, NEW c \in Clients, NEW p \in Places, Goto(c, p),
           <<op[c].place, p>> \in Pairs, p # "unlink",
           p = "check" => op[c].kind = "insert", p = "query" => op[c].kind # "insert"
    PROVE  \E v \in Op : One(c, v) /\ Goes(c, op[c], v)
<1>1. PICK v \in Op : One(c, v) /\ Same(op[c], v) /\ v.place = p /\ v.id = op[c].id
  BY GotoOne, Zenon
<1>2. op[c].place \notin {"idle", "done"}
  BY DEF Pairs
<1>3. Goes(c, op[c], v)
  BY <1>1, <1>2 DEF Goes
<1> QED
  BY <1>1, <1>3

(* Every step of a request but the one that writes the row. *)
LEMMA ServeGoes ==
    ASSUME Typed, NEW c \in Clients, Serve(c), ~InsertRow(c)
    PROVE  /\ rows' \subseteq rows /\ UNCHANGED <<nextId, requests, stops, ability>>
           /\ \E v \in Op : One(c, v) /\ Goes(c, op[c], v)
<1> USE DEF At
<1> DEFINE Goal == /\ rows' \subseteq rows /\ UNCHANGED <<nextId, requests, stops, ability>>
                   /\ \E v \in Op : One(c, v) /\ Goes(c, op[c], v)
<1>0. /\ {"lock", "check", "row", "exists", "create", "undoLock", "undo", "query", "delete", "asset"} \subseteq Places
      /\ op[c] \in Op /\ op \in [Clients -> Op]
  BY DEF Places, Typed
<1> SUFFICES Goal
  OBVIOUS
<1>1. ASSUME \E ret \in {"ok", "error"} : Return(c, ret), op[c].place \in Ending
      PROVE  \E v \in Op : One(c, v) /\ Goes(c, op[c], v)
  BY <1>1, EndGoes, Zenon
<1>2. ASSUME NEW p \in Places, Goto(c, p), <<op[c].place, p>> \in Pairs, p # "unlink",
             p = "check" => op[c].kind = "insert", p = "query" => op[c].kind # "insert"
      PROVE  \E v \in Op : One(c, v) /\ Goes(c, op[c], v)
  BY <1>2, GotoGoes, Zenon
<1>3. CASE LockShared(c)
  <2>1. op[c].place = "lock" /\ UNCHANGED <<rows, nextId, requests, stops, ability>>
    BY <1>3 DEF LockShared
  <2>2. CASE Return(c, "error")
    BY <1>1, <2>1, <2>2 DEF Ending
  <2>3. CASE Goto(c, IF op[c].kind = "insert" THEN "check" ELSE "query")
    <3>1. CASE op[c].kind = "insert"
      <4>1. Goto(c, "check")
        BY <2>3, <3>1
      <4> QED
        BY <1>0, <1>2, <2>1, <3>1, <4>1 DEF Pairs
    <3>2. CASE op[c].kind # "insert"
      <4>1. Goto(c, "query")
        BY <2>3, <3>2
      <4> QED
        BY <1>0, <1>2, <2>1, <3>2, <4>1 DEF Pairs
    <3> QED
      BY <3>1, <3>2
  <2> QED
    BY <1>3, <2>2, <2>3 DEF LockShared
<1>4. CASE CheckVideoRingtoneSize(c)
  <2>1. op[c].place = "check" /\ UNCHANGED <<rows, nextId, requests, stops, ability>>
    BY <1>4 DEF CheckVideoRingtoneSize
  <2>2. CASE Return(c, "error")
    BY <1>1, <2>1, <2>2 DEF Ending
  <2>3. CASE Goto(c, "row")
    BY <1>0, <1>2, <2>1, <2>3 DEF Pairs
  <2> QED
    BY <1>4, <2>2, <2>3 DEF CheckVideoRingtoneSize
<1>5. CASE InsertRowFails(c) \/ CreateFile(c) \/ Undo(c) \/ DeleteRows(c) \/ DeleteRowsFails(c)
  <2>1. op[c].place \in Ending /\ rows' \subseteq rows /\ UNCHANGED <<nextId, requests, stops, ability>>
    BY <1>5 DEF Ending, InsertRowFails, CreateFile, Undo, DeleteRows, DeleteRowsFails
  <2>2. Return(c, "ok") \/ Return(c, "error")
    BY <1>5, Zenon DEF InsertRowFails, CreateFile, Undo, DeleteRows, DeleteRowsFails
  <2> QED
    BY <1>1, <2>1, <2>2
<1>6. CASE GetAsset(c)
  <2>1. op[c].place = "asset" /\ UNCHANGED <<rows, nextId, requests, stops, ability>>
    BY <1>6 DEF GetAsset
  <2>2. PICK r \in AssetRows(c) : op' = [op EXCEPT ![c].place = "exists", ![c].file = r.path]
    BY <1>6 DEF GetAsset
  <2> DEFINE w == op[c]  path == r.path  v == [w EXCEPT !.place = "exists", !.file = path]
  <2>3. path \in Paths
    BY <2>2 DEF AssetRows, Typed, Row
  <2>4. op' = [op EXCEPT ![c] = v]
    <3> HIDE DEF path
    <3>1. op' = [op EXCEPT ![c].place = "exists", ![c].file = path]
      BY <2>2 DEF path
    <3>2. Requests
      BY <1>0, HasShape
    <3> QED
      BY <3>1, <3>2, TwoFields, Zenon
  <2>5. w \in Op
    BY <1>0
  <2> HIDE DEF w, path
  <2>6. v \in Op /\ Same(w, v) /\ v.place = "exists" /\ v.id = w.id
    BY <1>0, <2>3, <2>5 DEF Op, Same
  <2> HIDE DEF v
  <2>7. One(c, v)
    BY <1>0, <2>4, <2>6, Replaced
  <2>8. Goes(c, w, v)
    BY <2>1, <2>6 DEF Goes, Pairs, w
  <2> QED
    BY <2>1, <2>6, <2>7, <2>8 DEF w
<1>7. CASE GetAssetFails(c) \/ CreateFileFails(c)
  <2>1. op[c].place \in {"asset", "create"} /\ UNCHANGED <<rows, nextId, requests, stops, ability>> /\ Goto(c, "undoLock")
    BY <1>7 DEF GetAssetFails, CreateFileFails
  <2> QED
    BY <1>0, <1>2, <2>1 DEF Pairs
<1>8. CASE FileExists(c)
  <2>1. op[c].place = "exists" /\ UNCHANGED <<rows, nextId, requests, stops, ability>>
        /\ (Goto(c, "undoLock") \/ Goto(c, "create"))
    BY <1>8 DEF FileExists
  <2> QED
    BY <1>0, <1>2, <2>1 DEF Pairs
<1>9. CASE UndoLock(c)
  <2>1. op[c].place = "undoLock" /\ UNCHANGED <<rows, nextId, requests, stops, ability>> /\ Goto(c, "undo")
    BY <1>9 DEF UndoLock
  <2> QED
    BY <1>0, <1>2, <2>1 DEF Pairs
<1>10. CASE QueryPaths(c)
  <2>1. op[c].place = "query" /\ UNCHANGED <<rows, nextId, requests, stops, ability>>
    BY <1>10 DEF QueryPaths
  <2>2. CASE Goto(c, "delete")
    BY <1>0, <1>2, <2>1, <2>2 DEF Pairs
  <2>3. CASE op' = [op EXCEPT ![c].place = "unlink", ![c].found = {r.path : r \in Matches(c)}]
    <3> DEFINE w == op[c]  found == {r.path : r \in Matches(c)}
               v == [w EXCEPT !.place = "unlink", !.found = found]
    <3>1. found \in SUBSET Paths
      BY DEF Matches, Typed, Row
    <3>2. op' = [op EXCEPT ![c] = v]
      <4> HIDE DEF found
      <4>1. op' = [op EXCEPT ![c].place = "unlink", ![c].found = found]
        BY <2>3 DEF found
      <4>2. Requests
        BY <1>0, HasShape
      <4> QED
        BY <4>1, <4>2, TwoFields, Zenon
    <3>3. w \in Op
      BY <1>0
    <3> HIDE DEF w, found
    <3>4. v \in Op /\ Same(w, v) /\ v.place = "unlink" /\ v.id = w.id /\ v.found = found
      BY <1>0, <3>1, <3>3 DEF Op, Same, Places
    <3> HIDE DEF v
    <3>5. One(c, v)
      BY <1>0, <3>2, <3>4, Replaced
    <3>6. v.found = {r.path : r \in Matches(c)}
      BY <3>4, Zenon DEF found
    <3>7. w.place = "query"
      BY <2>1 DEF w
    <3>8. Goes(c, w, v)
      BY <3>4, <3>6, <3>7 DEF Goes, Pairs
    <3> QED
      BY <2>1, <3>4, <3>5, <3>8 DEF w
  <2> QED
    BY <1>10, <2>2, <2>3, Zenon DEF QueryPaths
<1>11. CASE UnlinkNext(c)
  <2>1. op[c].place = "unlink" /\ UNCHANGED <<rows, nextId, requests, stops, ability>>
    BY <1>11 DEF UnlinkNext
  <2>2. CASE Goto(c, "delete")
    BY <1>0, <1>2, <2>1, <2>2 DEF Pairs
  <2>3. CASE \E p : op' = [op EXCEPT ![c].found = @ \ {p}]
    <3>1. PICK p : op' = [op EXCEPT ![c].found = @ \ {p}]
      BY <2>3
    <3> DEFINE w == op[c]  left == w.found \ {p}  v == [w EXCEPT !.found = left]
    <3>2. op' = [op EXCEPT ![c] = v]
      BY <1>0, <3>1
    <3>3. w \in Op /\ w.place = "unlink"
      BY <1>0, <2>1
    <3> HIDE DEF w
    <3>4. left \in SUBSET Paths
      BY <3>3 DEF Op
    <3> HIDE DEF left
    <3>5. v \in Op /\ Same(w, v) /\ v.place = "unlink" /\ v.id = w.id /\ v.found = left
      BY <3>3, <3>4 DEF Op, Same
    <3> HIDE DEF v
    <3>6. One(c, v)
      BY <1>0, <3>2, <3>5, Replaced
    <3>7. Goes(c, w, v)
      BY <3>3, <3>5 DEF Goes, Pairs, left
    <3> QED
      BY <2>1, <3>5, <3>6, <3>7 DEF w
  <2> QED
    BY <1>11, <2>2, <2>3 DEF UnlinkNext
<1> QED
  BY <1>3, <1>4, <1>5, <1>6, <1>7, <1>8, <1>9, <1>10, <1>11 DEF Serve

(* A request begins. *)
LEMMA AskOne ==
    ASSUME Typed, NEW c \in Clients, AskInsert(c) \/ AskDelete(c)
    PROVE  /\ UNCHANGED <<rows, nextId, files, ability, stops>> /\ op[c].place \in {"idle", "done"}
           /\ requests' = requests + 1 /\ requests < MaxRequests
           /\ \E v \in Op : /\ One(c, v) /\ v.place = "lock"
                            /\ \/ v.kind = "insert" /\ c \in Inserters /\ v.table \in Tables /\ v.id = 0
                               \/ v.kind \in DeleteKinds /\ \E r \in rows : v.table = r.table
<1> USE DEF At
<1>0. op \in [Clients -> Op] /\ "lock" \in Places
  BY DEF Typed, Places
<1>1. UNCHANGED <<rows, nextId, files, ability, stops>> /\ op[c].place \in {"idle", "done"}
      /\ requests' = requests + 1 /\ requests < MaxRequests
  BY DEF AskInsert, AskDelete
<1>2. IdleOp \in Op
  BY DataManagerAssumption DEF IdleOp, Op, Places
<1> SUFFICES \E v \in Op : /\ One(c, v) /\ v.place = "lock"
                           /\ \/ v.kind = "insert" /\ c \in Inserters /\ v.table \in Tables /\ v.id = 0
                              \/ v.kind \in DeleteKinds /\ \E r \in rows : v.table = r.table
  BY <1>1
<1>3. CASE AskInsert(c)
  <2>1. PICK t \in Tables : \E p \in Paths : \E x \in BOOLEAN :
          op' = [op EXCEPT ![c] = [IdleOp EXCEPT !.place = "lock", !.kind = "insert",
                                      !.table = t, !.path = p, !.video = x /\ t = "ToneFiles"]]
    BY <1>3, Zenon DEF AskInsert
  <2>2. PICK p \in Paths, x \in BOOLEAN :
          op' = [op EXCEPT ![c] = [IdleOp EXCEPT !.place = "lock", !.kind = "insert",
                                      !.table = t, !.path = p, !.video = x /\ t = "ToneFiles"]]
    BY <2>1
  <2> DEFINE video == x /\ t = "ToneFiles"
             v == [IdleOp EXCEPT !.place = "lock", !.kind = "insert", !.table = t, !.path = p, !.video = video]
  <2>3. video \in BOOLEAN /\ t \in {"ToneFiles", "VibrateFiles"}
    BY DataManagerAssumption
  <2>4. op' = [op EXCEPT ![c] = v] /\ IdleOp.id = 0
    BY <2>2 DEF IdleOp
  <2> HIDE DEF video, IdleOp
  <2>5. v \in Op /\ v.place = "lock" /\ v.kind = "insert" /\ v.table = t /\ v.id = IdleOp.id
    BY <1>0, <1>2, <2>3 DEF Op
  <2> HIDE DEF v
  <2>6. One(c, v)
    BY <1>0, <2>4, <2>5, Replaced
  <2> QED
    BY <1>3, <2>4, <2>5, <2>6 DEF AskInsert
<1>4. CASE AskDelete(c)
  <2>1. PICK r \in rows, kind \in DeleteKinds :
          op' = [op EXCEPT ![c] = [IdleOp EXCEPT !.place = "lock", !.kind = kind,
                                      !.table = r.table, !.path = r.path, !.id = r.id]]
    BY <1>4 DEF AskDelete
  <2> DEFINE table == r.table  path == r.path  id == r.id
             v == [IdleOp EXCEPT !.place = "lock", !.kind = kind, !.table = table, !.path = path, !.id = id]
  <2>2. table \in {"ToneFiles", "VibrateFiles"} /\ path \in Paths /\ id \in Ids /\ kind \in {"byPath", "byId"}
    BY DataManagerAssumption DEF Typed, Row
  <2>3. op' = [op EXCEPT ![c] = v] /\ \E q \in rows : table = q.table
    BY <2>1
  <2> HIDE DEF table, path, id, IdleOp
  <2>4. v \in Op /\ v.place = "lock" /\ v.kind = kind /\ v.table = table
    BY <1>0, <1>2, <2>2 DEF Op
  <2> HIDE DEF v
  <2>5. One(c, v)
    BY <1>0, <2>3, <2>4, Replaced
  <2> QED
    BY <2>3, <2>4, <2>5
<1> QED
  BY <1>3, <1>4

(* The row is written. *)
LEMMA InsertOne ==
    ASSUME TypeInv, NEW c \in Clients, InsertRow(c)
    PROVE  LET w == op[c]
               x == [table |-> w.table, id |-> nextId[w.table], path |-> w.path, video |-> w.video]
           IN  /\ w.place = "row" /\ w.kind = "insert" /\ w.id = 0
               /\ x \in Row /\ rows' = rows \cup {x} /\ nextId' = [nextId EXCEPT ![w.table] = @ + 1]
               /\ UNCHANGED <<files, ability, requests, stops>>
               /\ \E v \in Op : One(c, v) /\ Same(w, v) /\ v.place = "asset" /\ v.id = nextId[w.table]
<1> DEFINE w == op[c]  id == nextId[w.table]
           x == [table |-> w.table, id |-> id, path |-> w.path, video |-> w.video]
           v == [w EXCEPT !.place = "asset", !.id = id]
<1>1. w \in Op /\ op \in [Clients -> Op] /\ w.place = "row" /\ w.kind = "insert" /\ w.id = 0
  BY DEF TypeInv, Typed, Known, Knows, InsertRow, At
<1>2. w.table \in {"ToneFiles", "VibrateFiles"} /\ id \in Nat /\ id >= 1
  BY <1>1 DEF Op, TypeInv, Typed, IdsLast
<1>3. id \in Ids
  <2>1. c \in Writers
    BY <1>1 DEF Writers, Writing
  <2>2. Cardinality(Writers) \in Nat /\ Cardinality(Writers) # 0
    BY <2>1, FS_CardinalityType, FS_EmptySet DEF TypeInv, IdsLast
  <2>3. id + Cardinality(Writers) <= requests + 2 /\ requests \in 0 .. MaxRequests
    BY <1>2 DEF TypeInv, IdsLast, Typed
  <2> QED
    BY <1>2, <2>2, <2>3, DataManagerAssumption DEF Ids
<1>4. UNCHANGED <<files, ability, requests, stops>> /\ rows' = rows \cup {x}
      /\ nextId' = [nextId EXCEPT ![w.table] = id + 1]
      /\ op' = [op EXCEPT ![c].place = "asset", ![c].id = id]
  BY Zenon DEF InsertRow
<1>5. op' = [op EXCEPT ![c] = v]
  <2> HIDE DEF id
  <2>1. Requests
    BY <1>1, HasShape
  <2> QED
    BY <1>4, <2>1, TwoFields, Zenon
<1>6. x \in Row
  BY <1>1, <1>2, <1>3 DEF Op, Row
<1>7. nextId' = [nextId EXCEPT ![w.table] = @ + 1]
  BY <1>4
<1> HIDE DEF w, id
<1>8. v \in Op /\ Same(w, v) /\ v.place = "asset" /\ v.id = id
  BY <1>1, <1>3 DEF Op, Same, Places
<1> HIDE DEF v
<1>9. One(c, v)
  BY <1>1, <1>5, <1>8, Replaced
<1> QED
  BY <1>1, <1>4, <1>6, <1>7, <1>8, <1>9 DEF w, id

-----------------------------------------------------------------------------
(* TypeInv is inductive *)

LEMMA FewerWriters ==
    ASSUME IdsLast, Writers' \subseteq Writers, UNCHANGED nextId, requests \in Nat, requests' \in Nat, requests <= requests',
           nextId \in [{"ToneFiles", "VibrateFiles"} -> Nat]
    PROVE  IdsLast'
<1>1. IsFiniteSet(Writers') /\ Cardinality(Writers') <= Cardinality(Writers)
  BY FS_Subset DEF IdsLast
<1>2. Cardinality(Writers') \in Nat /\ Cardinality(Writers) \in Nat
  BY <1>1, FS_CardinalityType DEF IdsLast
<1> DEFINE m == Cardinality(Writers)  k == Cardinality(Writers')
<1> HIDE DEF m, k
<1>3. ASSUME NEW t \in {"ToneFiles", "VibrateFiles"}
      PROVE  nextId'[t] >= 1 /\ nextId'[t] + k <= requests' + 2
  <2>1. nextId[t] >= 1 /\ nextId[t] + m <= requests + 2 /\ nextId[t] \in Nat
    BY <1>3 DEF IdsLast, m
  <2>2. k <= m /\ k \in Nat /\ m \in Nat
    BY <1>1, <1>2 DEF m, k
  <2> QED
    BY <2>1, <2>2
<1> QED
  BY <1>1, <1>3 DEF IdsLast, k

(* A request that stays as it is knows what it knew when rows go, and when a row comes. *)
LEMMA FewerKnown ==
    ASSUME NEW c, NEW w, NEW R, NEW N, NEW Q \in SUBSET R, Knows(c, w, R, N)
    PROVE  Knows(c, w, Q, N)
BY DEF Knows

LEMMA MoreKnown ==
    ASSUME NEW c, NEW w \in Op, NEW R, NEW N \in [{"ToneFiles", "VibrateFiles"} -> Nat], Knows(c, w, R, N),
           NEW x \in Row, x.id = N[x.table]
    PROVE  Knows(c, w, R \cup {x}, [N EXCEPT ![x.table] = @ + 1])
<1> DEFINE M == [N EXCEPT ![x.table] = @ + 1]
<1>1. x.table \in {"ToneFiles", "VibrateFiles"} /\ w.table \in {"ToneFiles", "VibrateFiles"} /\ w.id \in Int
  BY DEF Row, Op, Ids
<1>2. N[w.table] \in Nat /\ N[w.table] <= M[w.table]
  BY <1>1
<1>3. w.kind = "insert" => w.id < M[w.table] /\ ~(x.table = w.table /\ x.id = w.id)
  BY <1>1, <1>2 DEF Knows
<1> HIDE DEF M
<1>4. Knows(c, w, R \cup {x}, M)
  BY <1>3 DEF Knows
<1> QED
  BY <1>4 DEF M

LEMMA AskTyped ==
    ASSUME TypeInv, NEW c \in Clients, AskInsert(c) \/ AskDelete(c)
    PROVE  TypeInv'
<1>1. /\ UNCHANGED <<rows, nextId, files, ability, stops>> /\ op[c].place \in {"idle", "done"}
      /\ requests' = requests + 1 /\ requests < MaxRequests
  BY AskOne DEF TypeInv
<1>2. PICK v \in Op : /\ One(c, v) /\ v.place = "lock"
                      /\ \/ v.kind = "insert" /\ c \in Inserters /\ v.table \in Tables /\ v.id = 0
                         \/ v.kind \in DeleteKinds
  BY AskOne, Zenon DEF TypeInv
<1>3. Typed'
  BY <1>1, <1>2, DataManagerAssumption DEF TypeInv, Typed, One
<1>4. RowIds'
  BY <1>1 DEF TypeInv, RowIds
<1>5. requests \in Nat /\ nextId \in [{"ToneFiles", "VibrateFiles"} -> Nat]
  BY DataManagerAssumption DEF TypeInv, Typed
<1>6. IdsLast'
  <2>1. Writers' \subseteq Writers \cup {c}
    BY <1>2 DEF Writers, One
  <2>2. IsFiniteSet(Writers) /\ c \notin Writers
    BY <1>1 DEF TypeInv, IdsLast, Writers, Writing
  <2>3. IsFiniteSet(Writers \cup {c}) /\ Cardinality(Writers \cup {c}) = Cardinality(Writers) + 1
    BY <2>2, FS_AddElement
  <2>4. IsFiniteSet(Writers') /\ Cardinality(Writers') <= Cardinality(Writers) + 1
    BY <2>1, <2>3, FS_Subset
  <2>5. Cardinality(Writers') \in Nat /\ Cardinality(Writers) \in Nat
    BY <2>2, <2>4, FS_CardinalityType
  <2> DEFINE m == Cardinality(Writers)  k == Cardinality(Writers')
  <2> HIDE DEF m, k
  <2>6. ASSUME NEW t \in {"ToneFiles", "VibrateFiles"}
        PROVE  nextId'[t] >= 1 /\ nextId'[t] + k <= requests' + 2
    <3>1. nextId[t] >= 1 /\ nextId[t] + m <= requests + 2 /\ nextId[t] \in Nat
      BY <1>5 DEF TypeInv, IdsLast, m
    <3>2. k <= m + 1 /\ k \in Nat /\ m \in Nat
      BY <2>4, <2>5 DEF m, k
    <3>3. nextId'[t] = nextId[t] /\ requests' = requests + 1
      BY <1>1
    <3> QED
      BY <1>5, <3>1, <3>2, <3>3
  <2> QED
    BY <2>4, <2>6 DEF IdsLast, k
<1>7. Knows(c, v, rows, nextId)
  <2>1. v.kind = "insert" => v.id < nextId[v.table]
    <3>1. v.table \in {"ToneFiles", "VibrateFiles"} /\ \A t \in {"ToneFiles", "VibrateFiles"} : nextId[t] >= 1 /\ nextId[t] \in Nat
      BY <1>5 DEF Op, TypeInv, IdsLast
    <3>2. v.kind = "insert" => v.id = 0
      BY <1>2, DataManagerAssumption
    <3> QED
      BY <3>1, <3>2
  <2>2. \A r \in rows : r.id # 0
    BY DEF TypeInv, Typed, Row, Ids
  <2>3. "insert" \notin DeleteKinds
    BY DataManagerAssumption
  <2> QED
    BY <1>2, <2>1, <2>2, <2>3 DEF Knows, Undoing
<1>8. Known'
  <2>1. \A d \in Clients : Knows(d, op'[d], rows, nextId)
    BY <1>2, <1>7 DEF One, TypeInv, Known
  <2>2. rows' = rows /\ nextId' = nextId
    BY <1>1
  <2> QED
    BY <2>1, <2>2, Zenon DEF Known
<1> QED
  BY <1>3, <1>4, <1>6, <1>8 DEF TypeInv

LEMMA InsertTyped ==
    ASSUME TypeInv, NEW c \in Clients, InsertRow(c)
    PROVE  TypeInv'
<1> DEFINE w == op[c]
           x == [table |-> w.table, id |-> nextId[w.table], path |-> w.path, video |-> w.video]
<1>1. /\ w.place = "row" /\ w.kind = "insert" /\ w.id = 0
      /\ x \in Row /\ rows' = rows \cup {x} /\ nextId' = [nextId EXCEPT ![w.table] = @ + 1]
      /\ UNCHANGED <<files, ability, requests, stops>>
  BY InsertOne
<1>2. PICK v \in Op : One(c, v) /\ Same(w, v) /\ v.place = "asset" /\ v.id = nextId[w.table]
  BY InsertOne, Zenon
<1>3. /\ x.table = w.table /\ x.id = nextId[w.table] /\ x.path = w.path
      /\ w.table \in {"ToneFiles", "VibrateFiles"} /\ nextId \in [{"ToneFiles", "VibrateFiles"} -> Nat] /\ w \in Op
  BY DEF TypeInv, Typed, Op
<1> HIDE DEF x, w
<1>4. nextId' \in [{"ToneFiles", "VibrateFiles"} -> Nat]
      /\ \A t \in {"ToneFiles", "VibrateFiles"} : nextId'[t] = IF t = w.table THEN nextId[t] + 1 ELSE nextId[t]
  BY <1>1, <1>3
<1>5. Typed'
  <2>1. rows' \subseteq Row
    BY <1>1 DEF TypeInv, Typed
  <2> QED
    BY <1>1, <1>2, <1>4, <2>1 DEF TypeInv, Typed, One
<1>6. RowIds'
  <2>1. IsFiniteSet(rows')
    BY <1>1, FS_AddElement DEF TypeInv, RowIds
  <2>2. \A r \in rows : r.id \in Nat /\ r.table \in {"ToneFiles", "VibrateFiles"} /\ r.id < nextId[r.table]
    BY DEF TypeInv, RowIds, Typed, Row, Ids
  <2>3. \A r \in rows : r.id < nextId'[r.table]
    BY <1>3, <1>4, <2>2
  <2>4. x.id < nextId'[x.table]
    BY <1>3, <1>4
  <2>5. \A r \in rows : ~(r.table = x.table /\ r.id = x.id)
    BY <1>3, <2>2
  <2>6. \A r, q \in rows : r.table = q.table /\ r.id = q.id => r = q
    BY DEF TypeInv, RowIds
  <2>7. \A r \in rows' : r \in rows \/ r = x
    BY <1>1
  <2>8. \A r \in rows' : r.id < nextId'[r.table]
    BY <2>3, <2>4, <2>7, Zenon
  <2>9. \A r, q \in rows' : r.table = q.table /\ r.id = q.id => r = q
    BY <2>5, <2>6, <2>7
  <2> QED
    BY <2>1, <2>8, <2>9 DEF RowIds
<1>7. IdsLast'
  <2>1. Writers' \subseteq Writers \ {c} /\ c \in Writers
    BY <1>1, <1>2 DEF Writers, Writing, One, w
  <2>2. IsFiniteSet(Writers)
    BY DEF TypeInv, IdsLast
  <2>3. IsFiniteSet(Writers \ {c}) /\ Cardinality(Writers \ {c}) = Cardinality(Writers) - 1
    BY <2>1, <2>2, FS_RemoveElement
  <2>4. IsFiniteSet(Writers') /\ Cardinality(Writers') <= Cardinality(Writers) - 1
    BY <2>1, <2>3, FS_Subset
  <2>5. Cardinality(Writers') \in Nat /\ Cardinality(Writers) \in Nat
    BY <2>2, <2>4, FS_CardinalityType
  <2> DEFINE m == Cardinality(Writers)  k == Cardinality(Writers')
  <2> HIDE DEF m, k
  <2>6. ASSUME NEW t \in {"ToneFiles", "VibrateFiles"}
        PROVE  nextId'[t] >= 1 /\ nextId'[t] + k <= requests' + 2
    <3>1. nextId[t] >= 1 /\ nextId[t] + m <= requests + 2 /\ nextId[t] \in Nat
      BY <1>3 DEF TypeInv, IdsLast, m
    <3>2. k <= m - 1 /\ k \in Nat /\ m \in Nat
      BY <2>4, <2>5 DEF m, k
    <3>3. (nextId'[t] = nextId[t] + 1 \/ nextId'[t] = nextId[t]) /\ requests' = requests /\ requests \in Nat
      BY <1>1, <1>4, DataManagerAssumption DEF TypeInv, Typed
    <3> QED
      BY <3>1, <3>2, <3>3
  <2> QED
    BY <2>4, <2>6 DEF IdsLast, k
<1>8. Known'
  <2>1. nextId' = [nextId EXCEPT ![x.table] = @ + 1]
    BY <1>1, <1>3
  <2>2. \A d \in Clients : Knows(d, op[d], rows', nextId')
    <3> SUFFICES ASSUME NEW d \in Clients PROVE Knows(d, op[d], rows', nextId')
      OBVIOUS
    <3> DEFINE u == op[d]
    <3>1. u \in Op /\ Knows(d, u, rows, nextId)
      BY DEF TypeInv, Typed, Known
    <3> HIDE DEF u
    <3>2. Knows(d, u, rows \cup {x}, [nextId EXCEPT ![x.table] = @ + 1])
      BY <1>1, <1>3, <3>1, MoreKnown
    <3> QED
      BY <1>1, <2>1, <3>2 DEF u
  <2>3. Knows(c, v, rows', nextId')
    <3>1. Knows(c, w, rows', nextId')
      BY <2>2 DEF w
    <3>2. v.kind = "insert" /\ v.table = w.table /\ v.path = w.path
      BY <1>1, <1>2 DEF Same
    <3>3. v.id < nextId'[v.table]
      BY <1>2, <1>3, <1>4, <3>2
    <3>4. \A r \in rows' : r.table = v.table /\ r.id = v.id => r.path = v.path
      <4>1. \A r \in rows : r.id \in Nat /\ r.table \in {"ToneFiles", "VibrateFiles"} /\ r.id < nextId[r.table]
        BY DEF TypeInv, RowIds, Typed, Row, Ids
      <4>2. \A r \in rows : ~(r.table = v.table /\ r.id = v.id)
        BY <1>2, <1>3, <3>2, <4>1
      <4> QED
        BY <1>1, <1>3, <3>2, <4>2
    <3> QED
      BY <1>1, <1>2, <3>1, <3>2, <3>3, <3>4 DEF Knows, Undoing
  <2>4. \A d \in Clients : Knows(d, op'[d], rows', nextId')
    BY <1>2, <2>2, <2>3 DEF One
  <2> QED
    BY <2>4, Zenon DEF Known
<1> QED
  BY <1>5, <1>6, <1>7, <1>8 DEF TypeInv

LEMMA GoesTyped ==
    ASSUME TypeInv, NEW c \in Clients, Serve(c), ~InsertRow(c), files' \subseteq Paths
    PROVE  TypeInv'
<1> DEFINE w == op[c]
<1>1. rows' \subseteq rows /\ UNCHANGED <<nextId, requests, stops, ability>>
  BY ServeGoes DEF TypeInv
<1>2. PICK v \in Op : One(c, v) /\ Goes(c, w, v)
  BY ServeGoes, Zenon DEF TypeInv
<1>3. Typed'
  <2>1. rows' \subseteq Row
    BY <1>1 DEF TypeInv, Typed
  <2> QED
    BY <1>1, <1>2, <2>1 DEF TypeInv, Typed, One
<1>4. RowIds'
  <2>1. IsFiniteSet(rows')
    BY <1>1, FS_Subset DEF TypeInv, RowIds
  <2> QED
    BY <1>1, <2>1 DEF TypeInv, RowIds
<1>5. IdsLast'
  <2>1. Writing(v) => Writing(w)
    BY <1>2 DEF Goes, Pairs, Same, Writing
  <2>2. Writers' \subseteq Writers
    BY <1>2, <2>1 DEF Writers, One
  <2>3. requests \in Nat /\ nextId \in [{"ToneFiles", "VibrateFiles"} -> Nat]
    BY DataManagerAssumption DEF TypeInv, Typed
  <2>4. requests' = requests
    BY <1>1
  <2> QED
    BY <1>1, <2>2, <2>3, <2>4, FewerWriters DEF TypeInv
<1>6. Knows(c, v, rows, nextId)
  <2>1. Knows(c, w, rows, nextId) /\ w \in Op
    BY DEF TypeInv, Known, Typed
  <2>2. "insert" \notin DeleteKinds
    BY DataManagerAssumption
  <2>3. v.place \in {"check", "row"} \cup Undoing => v.kind = "insert"
    BY <1>2, <2>1 DEF Goes, Pairs, Same, Knows, Undoing
  <2>4. v.place \in {"query", "unlink", "delete"} => v.kind \in DeleteKinds
    BY <1>2, <2>1, <2>2 DEF Goes, Pairs, Same, Knows, Undoing
  <2>5. v.place # "lock"
    BY <1>2 DEF Goes, Pairs
  <2>6. v.kind = "insert" =>
         /\ c \in Inserters /\ v.table \in Tables /\ v.id < nextId[v.table]
         /\ v.place \in {"lock", "check", "row"} => v.id = 0
         /\ \A r \in rows : r.table = v.table /\ r.id = v.id => r.path = v.path
    <3>1. v.kind = w.kind /\ v.table = w.table /\ v.path = w.path /\ v.id = w.id
      BY <1>2 DEF Goes, Same
    <3>2. v.place \in {"check", "row"} => w.place \in {"lock", "check"}
      BY <1>2 DEF Goes, Pairs
    <3> HIDE DEF w
    <3> QED
      BY <2>1, <2>5, <3>1, <3>2 DEF Knows
  <2>7. v.place = "unlink" /\ v.kind = "byPath" => v.found \subseteq {v.path}
    <3> SUFFICES ASSUME v.place = "unlink", v.kind = "byPath" PROVE v.found \subseteq {v.path}
      OBVIOUS
    <3>1. v.kind = w.kind /\ v.path = w.path
      BY <1>2 DEF Goes, Same
    <3>2. w.place = "query" \/ w.place = "unlink"
      BY <1>2 DEF Goes, Pairs
    <3>3. CASE w.place = "unlink"
      BY <1>2, <2>1, <3>1, <3>3 DEF Goes, Knows
    <3>4. CASE w.place = "query"
      <4>1. v.found = {r.path : r \in Matches(c)}
        BY <1>2, <3>4 DEF Goes
      <4>2. \A r \in Matches(c) : r.path = w.path
        BY <3>1 DEF Matches
      <4> QED
        BY <3>1, <4>1, <4>2
    <3> QED
      BY <3>2, <3>3, <3>4
  <2> QED
    BY <2>3, <2>4, <2>5, <2>6, <2>7 DEF Knows
<1>7. Known'
  <2>1. \A d \in Clients : Knows(d, op'[d], rows, nextId)
    BY <1>2, <1>6 DEF One, TypeInv, Known
  <2>2. \A d \in Clients : Knows(d, op'[d], rows', nextId)
    <3> SUFFICES ASSUME NEW d \in Clients PROVE Knows(d, op'[d], rows', nextId)
      OBVIOUS
    <3> DEFINE u == op'[d]
    <3>1. Knows(d, u, rows, nextId)
      BY <2>1
    <3> HIDE DEF u
    <3>2. Knows(d, u, rows', nextId)
      BY <1>1, <3>1, FewerKnown
    <3> QED
      BY <3>2 DEF u
  <2>3. nextId' = nextId
    BY <1>1
  <2> QED
    BY <2>2, <2>3, Zenon DEF Known
<1> QED
  BY <1>3, <1>4, <1>5, <1>7 DEF TypeInv

LEMMA FilesTyped ==
    ASSUME Typed, NEW c \in Clients, Serve(c)
    PROVE  files' \subseteq Paths
<1>1. files' \subseteq files \/ files' = files \cup {op[c].file}
  BY DEF Serve, LockShared, CheckVideoRingtoneSize, InsertRow, InsertRowFails, GetAsset, GetAssetFails,
         FileExists, CreateFile, CreateFileFails, UndoLock, Undo, QueryPaths, UnlinkNext, DeleteRows, DeleteRowsFails
<1>2. op[c].file \in Paths
  BY DEF Typed, Op
<1> QED
  BY <1>1, <1>2 DEF Typed

LEMMA NextTypeInv == TypeInv /\ [Next]_vars => TypeInv'
<1> SUFFICES ASSUME TypeInv, [Next]_vars PROVE TypeInv'
  OBVIOUS
<1>1. CASE UNCHANGED vars \/ Ability
  <2>1. UNCHANGED <<rows, nextId, files, requests, op>>
    BY <1>1 DEF vars, Ability, OnStop, ClearRingtoneDataMgr, OnStart, InitManager
  <2>2. stops' \in 0 .. MaxStops /\ ability' \in {"up", "stopping", "down", "starting"}
    BY <1>1, DataManagerAssumption DEF vars, Ability, OnStop, ClearRingtoneDataMgr, OnStart, InitManager, TypeInv, Typed
  <2>3. Typed'
    BY <2>1, <2>2 DEF TypeInv, Typed
  <2>4. IdsLast' /\ RowIds' /\ Known'
    BY <2>1 DEF TypeInv, IdsLast, Writers, RowIds, Known
  <2> QED
    BY <2>3, <2>4 DEF TypeInv
<1>2. ASSUME NEW c \in Clients, AskInsert(c) \/ AskDelete(c) PROVE TypeInv'
  BY <1>2, AskTyped
<1>3. ASSUME NEW c \in Clients, Serve(c) PROVE TypeInv'
  <2>1. files' \subseteq Paths
    BY <1>3, FilesTyped DEF TypeInv
  <2> QED
    BY <1>3, <2>1, InsertTyped, GoesTyped
<1> QED
  BY <1>1, <1>2, <1>3 DEF Next

LEMMA InitTypeInv == Init => TypeInv
<1> SUFFICES ASSUME Init PROVE TypeInv
  OBVIOUS
<1> DEFINE preset == [table |-> "ToneFiles", id |-> 1, path |-> PresetPath, video |-> FALSE]
<1>1. IdleOp \in Op /\ IdleOp.place = "idle" /\ IdleOp.kind = "none"
  BY DataManagerAssumption DEF IdleOp, Op, Places
<1>2. op = [c \in Clients |-> IdleOp] /\ rows = {preset}
      /\ nextId = [t \in {"ToneFiles", "VibrateFiles"} |-> IF t = "ToneFiles" THEN 2 ELSE 1]
      /\ files = {PresetPath} /\ ability = "up" /\ requests = 0 /\ stops = 0
  BY Zenon DEF Init
<1>3. preset \in Row
  BY DataManagerAssumption DEF Row, Ids
<1> HIDE DEF IdleOp
<1>4. Typed
  BY <1>1, <1>2, <1>3, DataManagerAssumption DEF Typed
<1>5. IdsLast
  <2>1. Writers = {}
    BY <1>1, <1>2 DEF Writers, Writing
  <2>2. IsFiniteSet(Writers) /\ Cardinality(Writers) = 0
    BY <2>1, FS_EmptySet
  <2> QED
    BY <1>2, <2>2 DEF IdsLast
<1>6. RowIds
  <2>1. IsFiniteSet(rows)
    BY <1>2, FS_Singleton
  <2> QED
    BY <1>2, <2>1 DEF RowIds
<1>7. Known
  BY <1>1, <1>2 DEF Known, Knows, Undoing
<1> QED
  BY <1>4, <1>5, <1>6, <1>7 DEF TypeInv

LEMMA Inductive ==
    /\ Init => IInv
    /\ IInv /\ [Next]_vars => IInv'
<1>1. Init => IInv
  BY DEF Init, IInv, Shape, Requests, Fields, HoldsWhileServed, Served, CountsTheExtension,
      NoneShared, IdleOp
<1>2. IInv /\ [Next]_vars => IInv'
  BY HeldStep, CountStep DEF IInv, Held
<1> QED
  BY <1>1, <1>2

(* The rows, the ids, the mutex and the requests keep their types, for any callers: each id   *)
(* is given out for a request of its own, and no caller holds the mutex more than twice.     *)
THEOREM TypeCorrect == Spec => []TypeOK
<1>1. TypeInv /\ IInv => TypeOK
  BY DEF TypeInv, Typed, Op, IInv, Shape, CountsTheExtension, TypeOK
<1> QED
  BY <1>1, InitTypeInv, NextTypeInv, Inductive, PTL DEF Spec

-----------------------------------------------------------------------------
(* What a step does besides going on *)

(* Where a request is tells which action serves it. *)
LEMMA Acting ==
    ASSUME NEW c \in Clients, Serve(c)
    PROVE  /\ op[c].place = "check" => CheckVideoRingtoneSize(c)
           /\ op[c].place = "asset" => GetAsset(c) \/ GetAssetFails(c)
           /\ op[c].place = "exists" => FileExists(c)
           /\ op[c].place = "create" => CreateFile(c) \/ CreateFileFails(c)
           /\ op[c].place = "undo" => Undo(c)
           /\ op[c].place = "unlink" => UnlinkNext(c)
           /\ op[c].place = "delete" => DeleteRows(c) \/ DeleteRowsFails(c)
           /\ op[c].place \notin {"create", "unlink"} => UNCHANGED files
BY DEF Serve, At, LockShared, CheckVideoRingtoneSize, InsertRow, InsertRowFails, GetAsset, GetAssetFails,
       FileExists, CreateFile, CreateFileFails, UndoLock, Undo, QueryPaths, UnlinkNext, DeleteRows, DeleteRowsFails

(* What a rollback and a Delete remove. *)
LEMMA Removing ==
    ASSUME NEW c \in Clients, Serve(c)
    PROVE  /\ op[c].place = "undo" => rows' = rows \ AssetRows(c) \/ ("store" \in Failures /\ rows' = rows)
           /\ op[c].place = "delete" => rows' = rows \ Matches(c) \/ "store" \in Failures
BY Acting, Zenon DEF Undo, DeleteRows, DeleteRowsFails

(* A file is created by an Insert that succeeds. *)
LEMMA Creating ==
    ASSUME Typed, NEW c \in Clients, Serve(c), op[c].place = "create", op'[c].place = "done"
    PROVE  op'[c].ret = "ok" /\ files' = files \cup {op[c].file}
<1>1. CASE CreateFile(c)
  <2>1. Return(c, "ok") /\ files' = files \cup {op[c].file}
    BY <1>1 DEF CreateFile
  <2>2. PICK v \in Op : One(c, v) /\ v.place = "done" /\ v.ret = "ok"
    BY <2>1, ReturnOne, Zenon
  <2> QED
    BY <2>1, <2>2 DEF One
<1>2. CASE CreateFileFails(c)
  <2>1. Goto(c, "undoLock") /\ "undoLock" \in Places
    BY <1>2 DEF CreateFileFails, Places
  <2>2. PICK v \in Op : One(c, v) /\ v.place = "undoLock"
    BY <2>1, GotoOne, Zenon
  <2> QED
    BY <2>2 DEF One
<1> QED
  BY <1>1, <1>2, Acting

(* The file an Insert creates is the one its row names. *)
LEMMA LookingUp ==
    ASSUME Typed, NEW c \in Clients, Serve(c)
    PROVE  /\ op[c].place = "asset" /\ op'[c].place = "exists" => \E r \in AssetRows(c) : op'[c].file = r.path
           /\ op[c].place = "exists" => op'[c].file = op[c].file
<1>1. ASSUME op[c].place = "asset", op'[c].place = "exists"
      PROVE  \E r \in AssetRows(c) : op'[c].file = r.path
  <2>1. CASE GetAsset(c)
    <3>1. PICK r \in AssetRows(c) : op' = [op EXCEPT ![c].place = "exists", ![c].file = r.path]
      BY <2>1 DEF GetAsset
    <3> DEFINE w == op[c]  path == r.path  v == [w EXCEPT !.place = "exists", !.file = path]
    <3>2. op' = [op EXCEPT ![c] = v]
      <4> HIDE DEF path
      <4>1. op' = [op EXCEPT ![c].place = "exists", ![c].file = path]
        BY <3>1 DEF path
      <4>2. Requests
        BY HasShape DEF Typed
      <4> QED
        BY <4>1, <4>2, TwoFields, Zenon
    <3>3. w \in Op /\ op \in [Clients -> Op]
      BY DEF Typed
    <3> HIDE DEF w, path
    <3>4. v.file = path
      BY <3>3 DEF Op
    <3> HIDE DEF v
    <3>5. op'[c] = v
      BY <3>2, <3>3
    <3> QED
      BY <3>1, <3>4, <3>5 DEF path
  <2>2. CASE GetAssetFails(c)
    <3>1. Goto(c, "undoLock") /\ "undoLock" \in Places
      BY <2>2 DEF GetAssetFails, Places
    <3>2. PICK v \in Op : One(c, v) /\ v.place = "undoLock"
      BY <3>1, GotoOne, Zenon
    <3> QED
      BY <1>1, <3>2 DEF One
  <2> QED
    BY <1>1, <2>1, <2>2, Acting
<1>2. ASSUME op[c].place = "exists"
      PROVE  op'[c].file = op[c].file
  <2>1. FileExists(c) /\ {"undoLock", "create"} \subseteq Places
    BY <1>2, Acting DEF Places
  <2>2. \E p \in Places : Goto(c, p)
    BY <2>1 DEF FileExists
  <2>3. PICK v \in Op : One(c, v) /\ v.file = op[c].file
    BY <2>2, GotoOne, Zenon
  <2> QED
    BY <2>3 DEF One
<1> QED
  BY <1>1, <1>2

(* A file is removed by a Delete that found its path. *)
LEMMA Unlinking ==
    ASSUME Typed, NEW c \in Clients, Serve(c)
    PROVE  \/ files \subseteq files'
           \/ /\ op[c].place = "unlink" /\ op'[c].place = "unlink"
              /\ \E p \in op[c].found : files' = files \ {p}
<1>1. CASE op[c].place = "unlink"
  <2>1. UnlinkNext(c)
    BY <1>1, Acting
  <2>2. CASE UNCHANGED files
    BY <2>2
  <2>3. CASE \E p \in op[c].found : op' = [op EXCEPT ![c].found = @ \ {p}] /\ files' = files \ {p}
    <3>1. PICK p \in op[c].found : op' = [op EXCEPT ![c].found = @ \ {p}] /\ files' = files \ {p}
      BY <2>3
    <3> DEFINE w == op[c]  left == w.found \ {p}  v == [w EXCEPT !.found = left]
    <3>2. op' = [op EXCEPT ![c] = v] /\ op \in [Clients -> Op] /\ w \in Op
      BY <3>1 DEF Typed
    <3> HIDE DEF left, w
    <3>3. v.place = w.place
      BY <3>2 DEF Op
    <3> HIDE DEF v
    <3>4. op'[c] = v
      BY <3>2
    <3> QED
      BY <1>1, <3>1, <3>3, <3>4 DEF w
  <2> QED
    BY <2>1, <2>2, <2>3, Zenon DEF UnlinkNext
<1>2. CASE op[c].place = "create"
  BY <1>2, Acting DEF CreateFile, CreateFileFails
<1> QED
  BY <1>1, <1>2, Acting

-----------------------------------------------------------------------------
(* The count of the videos *)

(* Requests that passed the count of the videos, and have not written their row yet. *)
Passed == {c \in Inserters : op[c].place = "row" /\ op[c].video}

(* The rows that are there and those that will be: the last to pass did so below the limit,  *)
(* and only the other callers can have passed before it.                                     *)
Overrun ==
    Cardinality(Videos) + Cardinality(Passed) <= RINGTONE_VIDEO_MAX_COUNT + Cardinality(Inserters) - 1

LEMMA FewerPassed ==
    ASSUME TypeInv, IsFiniteSet(Inserters), Overrun, IsFiniteSet(rows'), Videos' \subseteq Videos, Passed' \subseteq Passed
    PROVE  Overrun'
<1> DEFINE videos == Cardinality(Videos)  videosNow == Cardinality(Videos')
           passed == Cardinality(Passed)  passedNow == Cardinality(Passed')  all == Cardinality(Inserters)
<1>1. IsFiniteSet(Videos) /\ IsFiniteSet(Passed) /\ IsFiniteSet(Videos') /\ IsFiniteSet(Passed')
  BY FS_Subset DEF TypeInv, RowIds, Videos, Passed
<1>2. videosNow <= videos /\ passedNow <= passed
  BY <1>1, FS_Subset
<1>3. videos \in Nat /\ videosNow \in Nat /\ passed \in Nat /\ passedNow \in Nat /\ all \in Nat
  BY <1>1, FS_CardinalityType
<1>4. videos + passed <= RINGTONE_VIDEO_MAX_COUNT + all - 1
  BY DEF Overrun
<1> HIDE DEF videos, videosNow, passed, passedNow, all
<1>5. videosNow + passedNow <= RINGTONE_VIDEO_MAX_COUNT + all - 1
  BY <1>2, <1>3, <1>4, DataManagerAssumption
<1> QED
  BY <1>5 DEF Overrun, videosNow, passedNow, all

(* A request passes below the limit, and there are no more of them than inserters. *)
LEMMA PassedBelow ==
    ASSUME TypeInv, IsFiniteSet(Inserters), RoomForVideo, UNCHANGED rows
    PROVE  Overrun'
<1> DEFINE videos == Cardinality(Videos')  passed == Cardinality(Passed')  all == Cardinality(Inserters)
<1>1. IsFiniteSet(Videos') /\ Passed' \subseteq Inserters /\ Videos' = Videos
  BY FS_Subset DEF TypeInv, RowIds, Videos, Passed
<1>2. IsFiniteSet(Passed') /\ passed <= all
  BY <1>1, FS_Subset
<1>3. videos \in Nat /\ passed \in Nat /\ all \in Nat
  BY <1>1, <1>2, FS_CardinalityType
<1>4. videos < RINGTONE_VIDEO_MAX_COUNT
  BY <1>1 DEF RoomForVideo
<1> HIDE DEF videos, passed, all
<1>5. videos + passed <= RINGTONE_VIDEO_MAX_COUNT + all - 1
  BY <1>2, <1>3, <1>4, DataManagerAssumption
<1> QED
  BY <1>5 DEF Overrun, videos, passed, all

(* A row is written by a request that had passed. *)
LEMMA WrittenPassed ==
    ASSUME TypeInv, IsFiniteSet(Inserters), Overrun, NEW c \in Passed, NEW x,
           rows' = rows \cup {x}, Passed' \subseteq Passed \ {c}
    PROVE  Overrun'
<1> DEFINE videos == Cardinality(Videos)  videosNow == Cardinality(Videos')
           passed == Cardinality(Passed)  passedNow == Cardinality(Passed')  all == Cardinality(Inserters)
<1>1. Videos' \subseteq Videos \cup {x} /\ IsFiniteSet(Videos) /\ IsFiniteSet(Passed)
  BY FS_Subset DEF TypeInv, RowIds, Videos, Passed
<1>2. IsFiniteSet(Videos \cup {x}) /\ Cardinality(Videos \cup {x}) \in Nat
      /\ Cardinality(Videos \cup {x}) <= videos + 1 /\ videos \in Nat
  <2>1. videos \in Nat
    BY <1>1, FS_CardinalityType
  <2>2. Cardinality(Videos \cup {x}) = IF x \in Videos THEN videos ELSE videos + 1
    BY <1>1, FS_AddElement
  <2>3. IsFiniteSet(Videos \cup {x})
    BY <1>1, FS_AddElement
  <2> HIDE DEF videos
  <2> QED
    BY <2>1, <2>2, <2>3
<1>3. IsFiniteSet(Passed \ {c}) /\ Cardinality(Passed \ {c}) = passed - 1 /\ passed \in Nat
  BY <1>1, FS_RemoveElement, FS_CardinalityType
<1>4. IsFiniteSet(Videos') /\ videosNow <= Cardinality(Videos \cup {x})
  BY <1>1, <1>2, FS_Subset
<1>5. IsFiniteSet(Passed') /\ passedNow <= passed - 1
  BY <1>3, FS_Subset
<1>6. videosNow \in Nat /\ passedNow \in Nat /\ all \in Nat
  BY <1>4, <1>5, FS_CardinalityType
<1>7. videos + passed <= RINGTONE_VIDEO_MAX_COUNT + all - 1
  BY DEF Overrun
<1> HIDE DEF videos, videosNow, passed, passedNow, all
<1>8. videosNow + passedNow <= RINGTONE_VIDEO_MAX_COUNT + all - 1
  BY <1>2, <1>3, <1>4, <1>5, <1>6, <1>7, DataManagerAssumption
<1> QED
  BY <1>8 DEF Overrun, videosNow, passedNow, all

LEMMA OverrunStep ==
    ASSUME IsFiniteSet(Inserters), TypeInv, TypeInv', Overrun, [Next]_vars
    PROVE  Overrun'
<1> USE DEF At
<1>0. IsFiniteSet(rows') /\ Inserters \subseteq Clients
  BY DataManagerAssumption DEF TypeInv, RowIds
<1>1. CASE UNCHANGED vars \/ Ability
  <2>1. UNCHANGED <<rows, op>>
    BY <1>1 DEF vars, Ability, OnStop, ClearRingtoneDataMgr, OnStart, InitManager
  <2> QED
    BY <1>0, <2>1, FewerPassed DEF Videos, Passed
<1>2. ASSUME NEW c \in Clients, AskInsert(c) \/ AskDelete(c) PROVE Overrun'
  <2>1. rows' = rows
    BY <1>2, AskOne DEF TypeInv
  <2>2. PICK v \in Op : One(c, v) /\ v.place = "lock"
    BY <1>2, AskOne, Zenon DEF TypeInv
  <2>3. Passed' \subseteq Passed
    BY <1>0, <2>2 DEF Passed, One
  <2> QED
    BY <1>0, <2>1, <2>3, FewerPassed DEF Videos
<1>3. ASSUME NEW c \in Clients, InsertRow(c) PROVE Overrun'
  <2> DEFINE w == op[c]
             x == [table |-> w.table, id |-> nextId[w.table], path |-> w.path, video |-> w.video]
  <2>1. w.place = "row" /\ w.kind = "insert" /\ rows' = rows \cup {x}
    BY <1>3, InsertOne
  <2>2. PICK v \in Op : One(c, v) /\ v.place = "asset"
    BY <1>3, InsertOne, Zenon
  <2>3. Passed' \subseteq Passed \ {c}
    BY <1>0, <2>2 DEF Passed, One
  <2>4. CASE w.video
    <3>1. c \in Passed
      BY <2>1, <2>4 DEF Passed, TypeInv, Known, Knows
    <3> QED
      BY <2>1, <2>3, <3>1, WrittenPassed
  <2>5. CASE ~w.video
    <3>1. x.video = w.video
      OBVIOUS
    <3> HIDE DEF x
    <3>2. Videos' \subseteq Videos
      BY <2>1, <2>5, <3>1 DEF Videos
    <3> QED
      BY <1>0, <2>3, <3>2, FewerPassed
  <2> QED
    BY <2>4, <2>5
<1>4. ASSUME NEW c \in Clients, Serve(c), ~InsertRow(c) PROVE Overrun'
  <2>1. rows' \subseteq rows
    BY <1>4, ServeGoes DEF TypeInv
  <2>2. PICK v \in Op : One(c, v) /\ Goes(c, op[c], v)
    BY <1>4, ServeGoes, Zenon DEF TypeInv
  <2>3. CASE v.place = "row" /\ v.video /\ RoomForVideo
    <3>1. op[c].place = "check"
      BY <2>2, <2>3 DEF Goes, Pairs
    <3>2. UNCHANGED rows
      BY <1>4, <3>1, Acting DEF CheckVideoRingtoneSize
    <3> QED
      BY <2>3, <3>2, PassedBelow
  <2>4. CASE ~(v.place = "row" /\ v.video)
    <3>1. Passed' \subseteq Passed
      BY <1>0, <2>2, <2>4 DEF Passed, One
    <3> QED
      BY <1>0, <2>1, <3>1, FewerPassed DEF Videos
  <2>5. CASE v.place = "row" /\ v.video /\ ~RoomForVideo
    <3>1. op[c].place = "check" /\ op[c].video
      BY <2>2, <2>5 DEF Goes, Pairs, Same
    <3>2. Return(c, "error")
      BY <1>4, <2>5, <3>1, Acting, Zenon DEF CheckVideoRingtoneSize
    <3>3. PICK u \in Op : One(c, u) /\ u.place = "done"
      BY <3>2, ReturnOne, Zenon DEF TypeInv
    <3> QED
      BY <2>2, <2>5, <3>3 DEF One
  <2> QED
    BY <2>3, <2>4, <2>5
<1> QED
  BY <1>1, <1>2, <1>3, <1>4 DEF Next

(* The video rows exceed RINGTONE_VIDEO_MAX_COUNT by fewer than the callers that insert, for *)
(* any number of them: with one caller that inserts, the limit holds.                        *)
THEOREM VideosOverrunByCallers ==
    ASSUME IsFiniteSet(Inserters), Inserters # {}
    PROVE  Spec => []VideoOverrun
<1>1. Init => Overrun
  <2> SUFFICES ASSUME Init PROVE Overrun
    OBVIOUS
  <2>1. Videos = {} /\ Passed = {}
    BY DataManagerAssumption DEF Init, Videos, Passed, IdleOp
  <2>2. Cardinality(Videos) = 0 /\ Cardinality(Passed) = 0
    BY <2>1, FS_EmptySet
  <2>3. Cardinality(Inserters) \in Nat /\ Cardinality(Inserters) # 0
    BY FS_CardinalityType, FS_EmptySet
  <2> QED
    BY <2>2, <2>3, DataManagerAssumption DEF Overrun
<1>2. TypeInv /\ TypeInv' /\ Overrun /\ [Next]_vars => Overrun'
  BY OverrunStep
<1>3. TypeInv /\ Overrun => VideoOverrun
  <2> SUFFICES ASSUME TypeInv, Overrun PROVE VideoOverrun
    OBVIOUS
  <2>1. IsFiniteSet(Videos) /\ IsFiniteSet(Passed)
    BY FS_Subset DEF TypeInv, RowIds, Videos, Passed
  <2>2. Cardinality(Videos) \in Nat /\ Cardinality(Passed) \in Nat /\ Cardinality(Inserters) \in Nat
    BY <2>1, FS_CardinalityType
  <2> QED
    BY <2>2, DataManagerAssumption DEF Overrun, VideoOverrun
<1> QED
  BY <1>1, <1>2, <1>3, InitTypeInv, NextTypeInv, PTL DEF Spec

-----------------------------------------------------------------------------
(* Rows and files *)

(* Of the record of a request, and the rows R: an Insert that failed has no row. *)
Swept(w, R) ==
    w.place = "done" /\ w.kind = "insert" /\ w.ret = "error" =>
        \A r \in R : ~(r.table = w.table /\ r.id = w.id)

AllSwept == \A c \in Clients : Swept(op[c], rows)

(* The step that ends an Insert with an error leaves no row: it has not got one yet, or it   *)
(* is the rollback.                                                                          *)
LEMMA EndSweeps ==
    ASSUME TypeInv, Tables \subseteq {"ToneFiles"}, "store" \notin Failures,
           NEW c \in Clients, Serve(c), ~InsertRow(c)
    PROVE  Swept(op'[c], rows')
<1> DEFINE w == op[c]
<1>1. PICK v \in Op : One(c, v) /\ Goes(c, w, v)
  BY ServeGoes, Zenon DEF TypeInv
<1>2. op'[c] = v /\ rows' \subseteq rows
  BY <1>1, ServeGoes DEF One, TypeInv
<1>3. w \in Op /\ Knows(c, w, rows, nextId)
  BY DEF TypeInv, Typed, Known
<1> SUFFICES ASSUME v.place = "done", v.kind = "insert", v.ret = "error"
             PROVE  \A r \in rows' : ~(r.table = v.table /\ r.id = v.id)
  BY <1>2 DEF Swept
<1>4. w.kind = "insert" /\ v.table = w.table /\ v.id = w.id /\ w.table = "ToneFiles"
  BY <1>1, <1>3 DEF Goes, Same, Knows
<1>5. w.place \in {"lock", "check", "row", "create", "undo"}
  <2>1. "insert" \notin DeleteKinds
    BY DataManagerAssumption
  <2>2. w.place \in Ending
    BY <1>1 DEF Goes, Pairs
  <2> QED
    BY <1>3, <1>4, <2>1, <2>2 DEF Ending, Knows
<1>6. CASE w.place \in {"lock", "check", "row"}
  <2>1. w.id = 0
    BY <1>3, <1>4, <1>6 DEF Knows
  <2>2. \A r \in rows : r.id # 0
    BY DEF TypeInv, Typed, Row, Ids
  <2> QED
    BY <1>2, <1>4, <2>1, <2>2
<1>7. CASE w.place = "create"
  BY <1>2, <1>7, Creating DEF TypeInv
<1>8. CASE w.place = "undo"
  <2>1. rows' = rows \ AssetRows(c)
    BY <1>8, Removing
  <2> QED
    BY <1>4, <2>1 DEF AssetRows
<1> QED
  BY <1>5, <1>6, <1>7, <1>8

(* A new row has an id of its own, so the requests that are over stay without one. *)
LEMMA StaysSwept ==
    ASSUME NEW c, NEW w \in Op, NEW R, NEW N \in [{"ToneFiles", "VibrateFiles"} -> Nat],
           Knows(c, w, R, N), Swept(w, R), NEW x \in Row, x.id = N[x.table]
    PROVE  Swept(w, R \cup {x})
<1>1. x.table \in {"ToneFiles", "VibrateFiles"} /\ w.table \in {"ToneFiles", "VibrateFiles"} /\ w.id \in Int
  BY DEF Row, Op, Ids
<1>2. w.kind = "insert" => ~(x.table = w.table /\ x.id = w.id)
  BY <1>1 DEF Knows
<1> QED
  BY <1>2 DEF Swept

LEMMA SweptStep ==
    ASSUME TypeInv, Tables \subseteq {"ToneFiles"}, "store" \notin Failures, AllSwept, [Next]_vars
    PROVE  AllSwept'
<1>1. CASE UNCHANGED vars \/ Ability
  BY <1>1 DEF vars, Ability, OnStop, ClearRingtoneDataMgr, OnStart, InitManager, AllSwept
<1>2. ASSUME NEW c \in Clients, AskInsert(c) \/ AskDelete(c) PROVE AllSwept'
  <2>1. rows' = rows
    BY <1>2, AskOne DEF TypeInv
  <2>2. PICK v \in Op : One(c, v) /\ v.place = "lock"
    BY <1>2, AskOne, Zenon DEF TypeInv
  <2>3. \A d \in Clients : Swept(op'[d], rows)
    BY <2>2 DEF AllSwept, Swept, One
  <2> QED
    BY <2>1, <2>3, Zenon DEF AllSwept
<1>3. ASSUME NEW c \in Clients, InsertRow(c) PROVE AllSwept'
  <2> DEFINE w == op[c]
             x == [table |-> w.table, id |-> nextId[w.table], path |-> w.path, video |-> w.video]
  <2>1. rows' = rows \cup {x} /\ x \in Row
    BY <1>3, InsertOne
  <2>2. PICK v \in Op : One(c, v) /\ v.place = "asset"
    BY <1>3, InsertOne, Zenon
  <2>3. x.id = nextId[x.table]
    OBVIOUS
  <2> HIDE DEF x
  <2>4. ASSUME NEW d \in Clients \ {c}
        PROVE  Swept(op[d], rows \cup {x})
    <3> DEFINE u == op[d]
    <3>1. u \in Op /\ Knows(d, u, rows, nextId) /\ Swept(u, rows)
          /\ nextId \in [{"ToneFiles", "VibrateFiles"} -> Nat]
      BY DEF TypeInv, Typed, Known, AllSwept
    <3> HIDE DEF u
    <3>2. Swept(u, rows \cup {x})
      BY <2>1, <2>3, <3>1, StaysSwept
    <3> QED
      BY <3>2 DEF u
  <2>5. Swept(v, rows \cup {x})
    BY <2>2 DEF Swept
  <2>6. \A d \in Clients : Swept(op'[d], rows \cup {x})
    BY <2>2, <2>4, <2>5 DEF One
  <2> QED
    BY <2>1, <2>6, Zenon DEF AllSwept
<1>4. ASSUME NEW c \in Clients, Serve(c), ~InsertRow(c) PROVE AllSwept'
  <2>1. rows' \subseteq rows
    BY <1>4, ServeGoes DEF TypeInv
  <2>2. PICK v \in Op : One(c, v)
    BY <1>4, ServeGoes, Zenon DEF TypeInv
  <2>3. Swept(op'[c], rows')
    BY <1>4, EndSweeps
  <2>4. \A d \in Clients \ {c} : op'[d] = op[d] /\ Swept(op[d], rows)
    BY <2>2 DEF One, AllSwept
  <2>5. \A d \in Clients \ {c} : Swept(op'[d], rows')
    BY <2>1, <2>4 DEF Swept
  <2>6. \A d \in Clients : Swept(op'[d], rows')
    BY <2>3, <2>5
  <2> QED
    BY <2>6, Zenon DEF AllSwept
<1> QED
  BY <1>1, <1>2, <1>3, <1>4 DEF Next

(* An Insert of a tone that returns an error has left no row behind, and none comes to have  *)
(* its id later, while the database does not fail: the file system may.                      *)
THEOREM FailedInsertsAreSwept ==
    ASSUME Tables \subseteq {"ToneFiles"}, "store" \notin Failures
    PROVE  Spec => []FailedInsertLeavesNoRow
<1>1. Init => AllSwept
  BY DEF Init, IdleOp, AllSwept, Swept
<1>2. TypeInv /\ AllSwept /\ [Next]_vars => AllSwept'
  BY SweptStep
<1>3. AllSwept => FailedInsertLeavesNoRow
  BY DEF AllSwept, Swept, FailedInsertLeavesNoRow, At
<1> QED
  BY <1>1, <1>2, <1>3, InitTypeInv, NextTypeInv, PTL DEF Spec

-----------------------------------------------------------------------------

(* The file an Insert looks for and creates is that of the path it was given. *)
Backs(w) ==
    /\ w.table = "ToneFiles"
    /\ w.place \in {"exists", "create"} => w.file = w.path

(* The request that will see to it that the row has its file or goes. *)
Answers(w, r) ==
    \/ w.place \in Undoing /\ w.id = r.id
    \/ w.place \in {"unlink", "delete"} /\ w.path = r.path

(* A row without its file is that of an Insert that is not over, or will be gone with the    *)
(* Delete that removed the file.                                                             *)
Owned(r) == r.path \in files \/ \E c \in Clients : Answers(op[c], r)

Consistent ==
    /\ \A c \in Clients : Backs(op[c])
    /\ \A r \in rows : r.table = "ToneFiles" /\ Owned(r)

(* The hypotheses of DataManager_mixed: the callers write tones and delete them by path, and *)
(* the database does not fail.                                                               *)
Tones == Tables \subseteq {"ToneFiles"} /\ DeleteKinds \subseteq {"byPath"} /\ "store" \notin Failures

LEMMA ServeBacks ==
    ASSUME TypeInv, Consistent, NEW c \in Clients, Serve(c), ~InsertRow(c)
    PROVE  Backs(op'[c])
<1> DEFINE w == op[c]
<1>1. PICK v \in Op : One(c, v) /\ Goes(c, w, v)
  BY ServeGoes, Zenon DEF TypeInv
<1>2. op'[c] = v /\ v.table = w.table /\ v.path = w.path /\ Backs(w) /\ Knows(c, w, rows, nextId)
  BY <1>1 DEF One, Goes, Same, Consistent, TypeInv, Known
<1>3. CASE v.place = "exists"
  <2>1. w.place = "asset" /\ w.kind = "insert"
    BY <1>1, <1>2, <1>3 DEF Goes, Pairs, Knows, Undoing
  <2>2. PICK r \in AssetRows(c) : v.file = r.path
    BY <1>2, <1>3, <2>1, LookingUp DEF TypeInv
  <2>3. r.path = w.path
    BY <1>2, <2>1, <2>2 DEF AssetRows, Knows, Backs
  <2> QED
    BY <1>2, <1>3, <2>2, <2>3 DEF Backs
<1>4. CASE v.place = "create"
  <2>1. w.place = "exists"
    BY <1>1, <1>4 DEF Goes, Pairs
  <2>2. v.file = w.file
    BY <1>2, <2>1, LookingUp DEF TypeInv
  <2> QED
    BY <1>2, <2>1, <2>2 DEF Backs
<1> QED
  BY <1>2, <1>3, <1>4 DEF Backs

(* A row that is still there after a step of c: either its file is, or a request answers.    *)
LEMMA ServeOwns ==
    ASSUME Tones, TypeInv, Consistent, NEW c \in Clients, Serve(c), ~InsertRow(c), NEW r \in rows'
    PROVE  Owned(r)'
<1> DEFINE w == op[c]
<1>1. PICK v \in Op : One(c, v) /\ Goes(c, w, v)
  BY ServeGoes, Zenon DEF TypeInv
<1>2. /\ op'[c] = v /\ v.path = w.path /\ v.id = w.id
      /\ Backs(w) /\ w \in Op /\ Knows(c, w, rows, nextId)
  BY <1>1 DEF One, Goes, Same, Consistent, TypeInv, Typed, Known
<1>3. r \in rows /\ r.table = "ToneFiles" /\ Owned(r)
  BY ServeGoes DEF TypeInv, Consistent
<1>4. ASSUME NEW d \in Clients, Answers(op'[d], r)
      PROVE  Owned(r)'
  BY <1>4 DEF Owned
<1>5. w.place \in {"unlink", "delete"} => w.kind = "byPath"
  BY <1>2 DEF Knows, Tones
<1>6. CASE r.path \in files
  <2>1. CASE r.path \in files'
    BY <2>1 DEF Owned
  <2>2. CASE r.path \notin files'
    <3>1. w.place = "unlink" /\ v.place = "unlink" /\ \E p \in w.found : files' = files \ {p}
      BY <1>2, <1>6, <2>2, Unlinking DEF TypeInv
    <3>2. r.path = w.path
      BY <1>2, <1>5, <1>6, <2>2, <3>1 DEF Knows
    <3> QED
      BY <1>2, <1>4, <3>1, <3>2 DEF Answers
  <2> QED
    BY <2>1, <2>2
<1>7. ASSUME NEW d \in Clients \ {c}, Answers(op[d], r) PROVE Owned(r)'
  <2>1. op'[d] = op[d]
    BY <1>1 DEF One
  <2> QED
    BY <1>4, <1>7, <2>1
<1>8. CASE w.place \in Undoing /\ w.id = r.id
  <2>1. w.kind = "insert" /\ w.table = "ToneFiles" /\ r.path = w.path
    BY <1>2, <1>3, <1>8 DEF Knows, Backs
  <2>2. CASE v.place \in Undoing
    BY <1>2, <1>4, <1>8, <2>2 DEF Answers
  <2>3. CASE v.place \notin Undoing
    <3>1. v.place = "done" /\ w.place \in {"create", "undo"}
      BY <1>1, <1>8, <2>3 DEF Goes, Pairs, Ending, Undoing
    <3>2. CASE w.place = "create"
      <4>1. w.file \in files' /\ w.file = w.path
        BY <1>2, <3>1, <3>2, Creating DEF TypeInv, Backs
      <4> QED
        BY <2>1, <4>1 DEF Owned
    <3>3. CASE w.place = "undo"
      BY <1>3, <1>8, <3>3, Removing DEF AssetRows, Tones
    <3> QED
      BY <3>1, <3>2, <3>3
  <2> QED
    BY <2>2, <2>3
<1>9. CASE w.place \in {"unlink", "delete"} /\ w.path = r.path
  <2>1. CASE v.place \in {"unlink", "delete"}
    BY <1>2, <1>4, <1>9, <2>1 DEF Answers
  <2>2. CASE v.place \notin {"unlink", "delete"}
    <3>1. w.place = "delete"
      BY <1>1, <1>9, <2>2 DEF Goes, Pairs, Ending
    <3>2. rows' = rows \ Matches(c)
      BY <3>1, Removing DEF Tones
    <3>3. r \in Matches(c)
      BY <1>2, <1>3, <1>5, <1>9 DEF Matches, Backs
    <3> QED
      BY <3>2, <3>3
  <2> QED
    BY <2>1, <2>2
<1> QED
  BY <1>3, <1>6, <1>7, <1>8, <1>9 DEF Owned, Answers

LEMMA ConsistentStep ==
    ASSUME Tones, TypeInv, Consistent, [Next]_vars
    PROVE  Consistent'
<1>1. CASE UNCHANGED vars \/ Ability
  BY <1>1 DEF vars, Ability, OnStop, ClearRingtoneDataMgr, OnStart, InitManager, Consistent, Owned
<1>2. ASSUME NEW c \in Clients, AskInsert(c) \/ AskDelete(c) PROVE Consistent'
  <2>1. UNCHANGED <<rows, files>> /\ op[c].place \in {"idle", "done"}
    BY <1>2, AskOne DEF TypeInv
  <2>2. PICK v \in Op : /\ One(c, v) /\ v.place = "lock"
                        /\ v.table \in Tables \/ \E r \in rows : v.table = r.table
    BY <1>2, AskOne, Zenon DEF TypeInv
  <2>3. Backs(v)
    BY <2>2 DEF Backs, Tones, Consistent
  <2>4. \A d \in Clients : Backs(op'[d])
    BY <2>2, <2>3 DEF One, Consistent
  <2>5. ASSUME NEW r \in rows PROVE Owned(r)'
    <3>1. r.path \in files \/ \E d \in Clients \ {c} : Answers(op[d], r)
      BY <2>1 DEF Consistent, Owned, Answers, Undoing
    <3> QED
      BY <2>1, <2>2, <3>1 DEF Owned, One
  <2> QED
    BY <2>1, <2>4, <2>5 DEF Consistent
<1>3. ASSUME NEW c \in Clients, InsertRow(c) PROVE Consistent'
  <2> DEFINE w == op[c]
  <2>1. files' = files /\ w.place = "row" /\ w.kind = "insert"
    BY <1>3, InsertOne
  <2>3. PICK x \in Row : rows' = rows \cup {x} /\ x.table = w.table /\ x.id = nextId[w.table]
    BY <1>3, InsertOne
  <2>2. PICK v \in Op : One(c, v) /\ Same(w, v) /\ v.place = "asset" /\ v.id = nextId[w.table]
    BY <1>3, InsertOne, Zenon
  <2>4. Backs(w) /\ Backs(v)
    BY <2>2 DEF Backs, Same, Consistent
  <2>5. \A d \in Clients : Backs(op'[d])
    BY <2>2, <2>4 DEF One, Consistent
  <2>6. ASSUME NEW r \in rows PROVE Owned(r)'
    <3>1. r.path \in files \/ \E d \in Clients \ {c} : Answers(op[d], r)
      BY <2>1 DEF Consistent, Owned, Answers, Undoing
    <3> QED
      BY <2>1, <2>2, <3>1 DEF Owned, One
  <2>7. Owned(x)'
    <3>1. Answers(op'[c], x)
      BY <2>2, <2>3 DEF Answers, Undoing, One
    <3> QED
      BY <3>1 DEF Owned
  <2> QED
    BY <2>3, <2>4, <2>5, <2>6, <2>7 DEF Consistent, Backs
<1>4. ASSUME NEW c \in Clients, Serve(c), ~InsertRow(c) PROVE Consistent'
  <2>1. rows' \subseteq rows
    BY <1>4, ServeGoes DEF TypeInv
  <2>2. PICK v \in Op : One(c, v)
    BY <1>4, ServeGoes, Zenon DEF TypeInv
  <2>3. \A d \in Clients : Backs(op'[d])
    <3>1. Backs(op'[c])
      BY <1>4, ServeBacks
    <3>2. \A d \in Clients \ {c} : op'[d] = op[d] /\ Backs(op[d])
      BY <2>2 DEF One, Consistent
    <3> QED
      BY <3>1, <3>2
  <2>4. \A r \in rows' : Owned(r)'
    BY <1>4, ServeOwns
  <2> QED
    BY <2>1, <2>3, <2>4 DEF Consistent
<1> QED
  BY <1>1, <1>2, <1>3, <1>4 DEF Next

(* Between requests every tone row has its file, for any number of callers that insert tones *)
(* and delete them by path, while the database does not fail: the file system may.           *)
THEOREM QuietRowsHaveFiles ==
    ASSUME Tables \subseteq {"ToneFiles"}, DeleteKinds \subseteq {"byPath"}, "store" \notin Failures
    PROVE  Spec => []RowsHaveFiles
<1>1. Init => Consistent
  BY DEF Init, IdleOp, Consistent, Backs, Owned
<1>2. TypeInv /\ Consistent /\ [Next]_vars => Consistent'
  BY ConsistentStep DEF Tones
<1>3. Consistent => RowsHaveFiles
  BY DEF Consistent, Owned, Answers, Undoing, RowsHaveFiles, Quiet
<1> QED
  BY <1>1, <1>2, <1>3, InitTypeInv, NextTypeInv, PTL DEF Spec

-----------------------------------------------------------------------------
(* How often a path is inserted *)

(* The rows of a path that no Insert may still give up: it looked for their file, and found  *)
(* none, or created it.                                                                      *)
Settling == {"asset", "exists", "undoLock", "undo"}
Settles(w, r) == w.place \in Settling /\ w.id = r.id
Standing(p) == {r \in rows : r.path = p /\ ~\E c \in Clients : Settles(op[c], r)}

Sweeps(w, p) == w.place \in {"unlink", "delete"} /\ w.path = p
Sweeping(p) == \E c \in Clients : Sweeps(op[c], p)

(* While a Delete is about to remove every row of the path, there may be any number of them. *)
Few(p) == Sweeping(p) \/ Cardinality(Standing(p)) <= Cardinality(Inserters)
Doubled == \A p \in Paths : Few(p)

LEMMA FewerStanding ==
    ASSUME TypeInv, IsFiniteSet(Inserters), NEW p, Cardinality(Standing(p)) <= Cardinality(Inserters),
           Standing(p)' \subseteq Standing(p)
    PROVE  Few(p)'
<1>1. IsFiniteSet(Standing(p))
  BY FS_Subset DEF TypeInv, RowIds, Standing
<1>2. Cardinality(Standing(p)') <= Cardinality(Standing(p)) /\ IsFiniteSet(Standing(p)')
  BY <1>1, FS_Subset
<1> DEFINE now == Cardinality(Standing(p)')  was == Cardinality(Standing(p))  all == Cardinality(Inserters)
<1>3. now \in Nat /\ was \in Nat /\ all \in Nat
  BY <1>1, <1>2, FS_CardinalityType
<1>4. now <= was /\ was <= all
  BY <1>2
<1> HIDE DEF now, was, all
<1>5. now <= all
  BY <1>3, <1>4
<1> QED
  BY <1>5 DEF Few, now, all

(* Rows with an id each, of different requests of inserting callers, are as few as these.    *)
LEMMA OnePerInserter ==
    ASSUME IsFiniteSet(Inserters), NEW R, NEW id,
           \A r \in R : \E d \in Inserters : id[d] = r.id,
           \A r, q \in R : r.id = q.id => r = q
    PROVE  Cardinality(R) <= Cardinality(Inserters)
<1> DEFINE f == [r \in R |-> CHOOSE d \in Inserters : id[d] = r.id]
<1>1. \A r \in R : f[r] \in Inserters /\ id[f[r]] = r.id
  OBVIOUS
<1>2. f \in [R -> Inserters]
  BY <1>1
<1>3. \A r, q \in R : f[r] = f[q] => r = q
  BY <1>1
<1> HIDE DEF f
<1>4. f \in Injection(R, Inserters)
  BY <1>2, <1>3 DEF Injection, IsInjective
<1> QED
  BY <1>4, FS_Injection

(* The file of a path was not there when an Insert looked: the rows of the path that stand   *)
(* then are those of callers that looked as well, and have not created the file yet.         *)
LEMMA LookedInVain ==
    ASSUME Tones, TypeInv, TypeInv', Consistent, IsFiniteSet(Inserters), NEW c \in Clients, Serve(c), ~InsertRow(c),
           op[c].place = "exists", op'[c].place = "create", NEW p, op[c].path = p, ~Sweeping(p)
    PROVE  Cardinality(Standing(p)') <= Cardinality(Inserters)
<1> DEFINE w == op[c]  R == Standing(p)'  id == [d \in Clients |-> op'[d].id]
<1>1. PICK v \in Op : One(c, v) /\ Goes(c, w, v)
  BY ServeGoes, Zenon DEF TypeInv
<1>2. /\ op'[c] = v /\ v.id = w.id /\ v.place = "create" /\ \A d \in Clients \ {c} : op'[d] = op[d]
      /\ \A d \in Clients : Knows(d, op[d], rows, nextId)
  BY <1>1 DEF One, Goes, TypeInv, Known
<1>3. FileExists(c) /\ w.file = p
  BY Acting DEF Consistent, Backs
<1>4. p \notin files
  <2>1. CASE p \in files
    <3>1. Goto(c, "undoLock") /\ "undoLock" \in Places
      BY <1>3, <2>1 DEF FileExists, Places
    <3>2. PICK u \in Op : One(c, u) /\ u.place = "undoLock"
      BY <3>1, GotoOne, Zenon DEF TypeInv
    <3> QED
      BY <3>2 DEF One
  <2> QED
    BY <2>1
<1>5. rows' \subseteq rows
  BY ServeGoes DEF TypeInv
<1>6. ASSUME NEW r \in R
      PROVE  \E d \in Inserters : id[d] = r.id
  <2>1. r \in rows' /\ r.path = p /\ ~\E d \in Clients : Settles(op'[d], r)
    BY <1>6 DEF Standing
  <2>2. PICK d \in Clients : Answers(op[d], r)
    BY <1>4, <1>5, <2>1 DEF Consistent, Owned
  <2>3. ~Sweeps(op[d], p)
    BY DEF Sweeping
  <2>4. op[d].place \in Undoing /\ op[d].id = r.id
    BY <2>1, <2>2, <2>3 DEF Answers, Sweeps
  <2>5. d \in Inserters
    BY <1>2, <2>4 DEF Knows, Undoing
  <2>6. op'[d].id = r.id
    BY <1>2, <2>4
  <2> QED
    BY <2>2, <2>5, <2>6
<1>7. \A r, q \in R : r.id = q.id => r = q
  BY <1>5 DEF Standing, Consistent, TypeInv, RowIds
<1> HIDE DEF R, id
<1>8. Cardinality(R) <= Cardinality(Inserters)
  BY <1>6, <1>7, OnePerInserter
<1> QED
  BY <1>8 DEF R

LEMMA ServeFew ==
    ASSUME Tones, TypeInv, TypeInv', Consistent, IsFiniteSet(Inserters), NEW c \in Clients, Serve(c), ~InsertRow(c),
           NEW p \in Paths, Few(p)
    PROVE  Few(p)'
<1> DEFINE w == op[c]
<1>1. PICK v \in Op : One(c, v) /\ Goes(c, w, v)
  BY ServeGoes, Zenon DEF TypeInv
<1>2. /\ op'[c] = v /\ v.id = w.id /\ v.path = w.path /\ \A d \in Clients \ {c} : op'[d] = op[d]
      /\ w \in Op /\ Knows(c, w, rows, nextId) /\ Backs(w)
  BY <1>1 DEF One, Goes, Same, TypeInv, Typed, Known, Consistent
<1>3. rows' \subseteq rows /\ \A r \in rows : r.table = "ToneFiles"
  BY ServeGoes DEF TypeInv, Consistent
<1>4. CASE Sweeping(p)
  <2>1. PICK d \in Clients : Sweeps(op[d], p)
    BY <1>4 DEF Sweeping
  <2>2. CASE d # c \/ v.place \in {"unlink", "delete"}
    <3>1. Sweeps(op'[d], p)
      BY <1>2, <2>1, <2>2 DEF Sweeps
    <3> QED
      BY <3>1 DEF Few, Sweeping
  <2>3. CASE d = c /\ v.place \notin {"unlink", "delete"}
    <3>1. w.place = "delete" /\ w.path = p
      BY <1>1, <2>1, <2>3 DEF Goes, Pairs, Ending, Sweeps
    <3>2. rows' = rows \ Matches(c)
      BY <3>1, Removing DEF Tones
    <3>3. w.kind = "byPath" /\ w.table = "ToneFiles"
      BY <1>2, <3>1 DEF Knows, Tones, Backs
    <3>4. \A r \in rows : r.path = p => r \in Matches(c)
      BY <1>3, <3>1, <3>3 DEF Matches
    <3>5. Standing(p)' = {}
      BY <3>2, <3>4 DEF Standing
    <3>6. Cardinality(Standing(p)') = 0 /\ Cardinality(Inserters) \in Nat
      BY <3>5, FS_EmptySet, FS_CardinalityType
    <3> QED
      BY <3>6 DEF Few
  <2> QED
    BY <2>2, <2>3
<1>5. CASE ~Sweeping(p) /\ w.place = "exists" /\ v.place = "create" /\ w.path = p
  <2>1. Cardinality(Standing(p)') <= Cardinality(Inserters)
    BY <1>2, <1>5, LookedInVain
  <2> QED
    BY <2>1 DEF Few
<1>6. CASE ~Sweeping(p) /\ ~(w.place = "exists" /\ v.place = "create" /\ w.path = p)
  <2>1. ASSUME NEW r \in Standing(p)'
        PROVE  r \in Standing(p)
    <3>1. r \in rows' /\ r.path = p /\ ~\E d \in Clients : Settles(op'[d], r)
      BY <2>1 DEF Standing
    <3>2. ~Settles(w, r)
      <4> SUFFICES ASSUME w.place \in Settling, w.id = r.id PROVE FALSE
        BY DEF Settles
      <4>1. v.place \notin Settling
        BY <1>2, <3>1 DEF Settles
      <4>2. (w.place = "exists" /\ v.place = "create") \/ w.place = "undo"
        BY <1>1, <4>1 DEF Goes, Pairs, Ending, Settling
      <4>3. w.table = "ToneFiles" /\ r.path = w.path
        BY <1>2, <1>3, <3>1, <4>2 DEF Knows, Undoing, Backs
      <4>4. w.place = "undo"
        BY <1>6, <3>1, <4>2, <4>3
      <4>5. rows' = rows \ AssetRows(c)
        BY <4>4, Removing DEF Tones
      <4> QED
        BY <1>3, <3>1, <4>5 DEF AssetRows
    <3>3. \A d \in Clients \ {c} : ~Settles(op[d], r)
      BY <1>2, <3>1
    <3> QED
      BY <1>3, <3>1, <3>2, <3>3 DEF Standing
  <2>2. Standing(p)' \subseteq Standing(p) /\ Cardinality(Standing(p)) <= Cardinality(Inserters)
    BY <1>6, <2>1 DEF Few
  <2> QED
    BY <2>2, FewerStanding
<1> QED
  BY <1>4, <1>5, <1>6

(* A step that begins a request, or writes its row, which it may still give up.              *)
LEMMA OthersFew ==
    ASSUME TypeInv, IsFiniteSet(Inserters), NEW c \in Clients, NEW p, Few(p), NEW v, One(c, v),
           op[c].place \in {"idle", "done", "row"}, v.place \in {"lock", "asset"},
           \A r \in rows' : r \in rows \/ Settles(v, r)
    PROVE  Few(p)'
<1>1. op'[c] = v /\ \A d \in Clients \ {c} : op'[d] = op[d]
  BY DEF One
<1>2. CASE Sweeping(p)
  <2>1. PICK d \in Clients : Sweeps(op[d], p)
    BY <1>2 DEF Sweeping
  <2>2. Sweeps(op'[d], p)
    BY <1>1, <2>1 DEF Sweeps
  <2> QED
    BY <2>2 DEF Few, Sweeping
<1>3. CASE ~Sweeping(p)
  <2>1. ASSUME NEW r \in Standing(p)'
        PROVE  r \in Standing(p)
    <3>1. r \in rows' /\ r.path = p /\ \A d \in Clients : ~Settles(op'[d], r)
      BY <2>1 DEF Standing
    <3>2. r \in rows /\ \A d \in Clients \ {c} : ~Settles(op[d], r)
      BY <1>1, <3>1
    <3>3. ~Settles(op[c], r)
      BY DEF Settles, Settling
    <3> QED
      BY <3>1, <3>2, <3>3 DEF Standing
  <2>2. Standing(p)' \subseteq Standing(p) /\ Cardinality(Standing(p)) <= Cardinality(Inserters)
    BY <1>3, <2>1 DEF Few
  <2> QED
    BY <2>2, FewerStanding
<1> QED
  BY <1>2, <1>3

LEMMA DoubledStep ==
    ASSUME Tones, IsFiniteSet(Inserters), TypeInv, TypeInv', Consistent, Doubled, [Next]_vars
    PROVE  Doubled'
<1> SUFFICES ASSUME NEW p \in Paths PROVE Few(p)'
  BY DEF Doubled
<1>0. Few(p)
  BY DEF Doubled
<1>1. CASE UNCHANGED vars \/ Ability
  <2>1. UNCHANGED <<rows, op>>
    BY <1>1 DEF vars, Ability, OnStop, ClearRingtoneDataMgr, OnStart, InitManager
  <2> QED
    BY <1>0, <2>1 DEF Few, Sweeping, Standing
<1>2. ASSUME NEW c \in Clients, AskInsert(c) \/ AskDelete(c) PROVE Few(p)'
  <2>1. rows' = rows /\ op[c].place \in {"idle", "done"}
    BY <1>2, AskOne DEF TypeInv
  <2>2. PICK v \in Op : One(c, v) /\ v.place = "lock"
    BY <1>2, AskOne, Zenon DEF TypeInv
  <2> QED
    BY <1>0, <2>1, <2>2, OthersFew
<1>3. ASSUME NEW c \in Clients, InsertRow(c) PROVE Few(p)'
  <2>1. op[c].place = "row"
    BY <1>3, InsertOne
  <2>2. PICK x \in Row : rows' = rows \cup {x} /\ x.id = nextId[op[c].table]
    BY <1>3, InsertOne
  <2>3. PICK v \in Op : One(c, v) /\ v.place = "asset" /\ v.id = nextId[op[c].table]
    BY <1>3, InsertOne, Zenon
  <2>4. \A r \in rows' : r \in rows \/ Settles(v, r)
    BY <2>2, <2>3 DEF Settles, Settling
  <2> QED
    BY <1>0, <2>1, <2>3, <2>4, OthersFew
<1>4. ASSUME NEW c \in Clients, Serve(c), ~InsertRow(c) PROVE Few(p)'
  BY <1>0, <1>4, ServeFew
<1> QED
  BY <1>1, <1>2, <1>3, <1>4 DEF Next

(* Between requests a path has a row for each inserting caller at most: with one caller that *)
(* inserts, no path is ever doubled, however many callers delete by path meanwhile.          *)
THEOREM PathsDoubledByCallers ==
    ASSUME Tables \subseteq {"ToneFiles"}, DeleteKinds \subseteq {"byPath"}, "store" \notin Failures,
           IsFiniteSet(Inserters), Inserters # {}
    PROVE  Spec => []DoubledByCallers
<1>0. Tones
  BY DEF Tones
<1>1. Init => Consistent
  BY DEF Init, IdleOp, Consistent, Backs, Owned
<1>2. TypeInv /\ Consistent /\ [Next]_vars => Consistent'
  BY <1>0, ConsistentStep
<1>3. Init => Doubled
  <2> SUFFICES ASSUME Init, NEW p \in Paths PROVE Few(p)
    BY DEF Doubled
  <2> DEFINE all == Cardinality(Inserters)  preset == [table |-> "ToneFiles", id |-> 1, path |-> PresetPath, video |-> FALSE]
  <2>1. all \in Nat /\ all # 0
    BY FS_CardinalityType, FS_EmptySet
  <2>2. Standing(p) \subseteq {preset}
    BY DEF Init, Standing
  <2>3. IsFiniteSet({preset}) /\ Cardinality({preset}) = 1
    BY FS_Singleton
  <2>4. Cardinality(Standing(p)) <= 1 /\ IsFiniteSet(Standing(p))
    BY <2>2, <2>3, FS_Subset
  <2>5. Cardinality(Standing(p)) \in Nat
    BY <2>4, FS_CardinalityType
  <2> HIDE DEF all
  <2>6. Cardinality(Standing(p)) <= all
    BY <2>1, <2>4, <2>5
  <2> QED
    BY <2>6 DEF Few, all
<1>4. TypeInv /\ TypeInv' /\ Consistent /\ Doubled /\ [Next]_vars => Doubled'
  BY <1>0, DoubledStep
<1>5. Doubled => DoubledByCallers
  <2> SUFFICES ASSUME Doubled, Quiet, NEW p \in Paths
               PROVE  Cardinality({r \in rows : r.path = p}) <= Cardinality(Inserters)
    BY DEF DoubledByCallers
  <2>1. ~Sweeping(p) /\ Standing(p) = {r \in rows : r.path = p}
    BY DEF Quiet, Sweeping, Sweeps, Standing, Settles, Settling
  <2> QED
    BY <2>1 DEF Doubled, Few
<1> QED
  BY <1>1, <1>2, <1>3, <1>4, <1>5, InitTypeInv, NextTypeInv, PTL DEF Spec
=============================================================================
