------------------------------ MODULE Reports -------------------------------
(***************************************************************************)
(* What is shown of the tables: lists by pages and the totals of the       *)
(* dashboard, read statement by statement while rows are inserted.         *)
(*                                                                         *)
(* Every list shows the newest row first, by its id or created_at, which a *)
(* row gets a moment before others can see it.  Some handlers read all     *)
(* rows and cut a page out of them (paginateSlice), others count and then  *)
(* select with an offset.  No row is ever deleted; two lists leave out the *)
(* rows that have grown older than a year.  One user's rows stand for      *)
(* everybody's; every amount is 1.  Filters a client sets are left out.    *)
(***************************************************************************)
EXTENDS Integers, Sequences, FiniteSets

CONSTANTS
  Kinds,      \* kinds of rows inserted: of tables, and of entries in ledger_entries
  Before,     \* rows there are already
  PageSize,   \* defaultPageSize
  Window,     \* days a row stays in the lists of the last year
  MaxRows,    \* bound: rows inserted
  MaxDay      \* bound: the calendar stops there

Earnings == {"static", "generation", "community_base", "peer"}

ASSUME ReportsAssumption ==
  /\ Before \in Nat /\ MaxRows \in Nat /\ MaxDay \in Nat
  /\ PageSize \in Nat \ {0} /\ Window \in Nat \ {0}

VARIABLES
  rows,     \* the rows that are visible, whatever their table
  writing,  \* rows whose INSERT is under way
  day,      \* the calendar
  walk,     \* somebody who looks through a list, page after page
  board     \* a request for the dashboard

reportVars == <<rows, writing, day, walk, board>>

Row(at, kind, date) == [at |-> at, kind |-> kind, day |-> date]
Taken == rows \cup writing

-----------------------------------------------------------------------------
(* The lists *)

\* What reqType asks for; anything else: all earnings.
ReqTypeToEntryType(t) ==
  CASE t = "2" -> {"static"} [] t = "3" -> {"generation"}
    [] t = "5" -> {"community_base"} [] t = "6" -> {"peer"} [] OTHER -> Earnings

\* The ledger entries of the console; an unknown reason is no filter.
LedgerEntries == Earnings \cup {"extract", "deposit", "admin_adjust"}
LedgerEntryFromReason(reason) ==
  CASE reason \in {"static", "location"} -> {"static"}
    [] reason \in {"generation", "recommend"} -> {"generation"}
    [] reason \in {"community_base", "area_two"} -> {"community_base"}
    [] reason \in {"peer", "area"} -> {"peer"}
    [] reason \in {"extract", "withdraw"} -> {"extract"}
    [] reason \in {"deposit", "buy"} -> {"deposit"}
    [] OTHER -> LedgerEntries

\* A list: what it shows, whether it counts in a statement of its own, and whether it shows the last year only.
Sliced(kinds) == [kinds |-> kinds, counts |-> FALSE, recent |-> FALSE]
Recent(kinds) == [kinds |-> kinds, counts |-> FALSE, recent |-> TRUE]
Counted(kinds) == [kinds |-> kinds, counts |-> TRUE, recent |-> FALSE]

OrderList == Sliced({"order"})
WithdrawList == Sliced({"withdraw"})
RewardList(reqType) == Recent(ReqTypeToEntryType(reqType))
DepositList == Recent({"deposit"})
AdminWithdrawList == Sliced({"withdraw"})
AdminUserList == Counted({"user"})
AdminBuyList == Counted({"order"})
AdminRewardList(reason) == Counted(LedgerEntryFromReason(reason))
AdminRecordList == Counted({"deposit"})

Lists ==
  {OrderList, WithdrawList, DepositList, AdminWithdrawList, AdminUserList, AdminBuyList, AdminRecordList}
    \cup {RewardList(t) : t \in {"", "2", "3", "5", "6"}}
    \cup {AdminRewardList(r) : r \in {"", "static", "generation", "community_base", "peer", "extract", "deposit"}}

Shown(list) == {r \in rows : r.kind \in list.kinds /\ (list.recent => day - r.day < Window)}

\* Where a row stands in a list, the newest first.
Place(set, r) == Cardinality({s \in set : s.at >= r.at})

\* Mutation: the pages are counted from 0.
PageFromZero(set, page) == {r \in set : page * PageSize < Place(set, r) /\ Place(set, r) <= (page + 1) * PageSize}

\* paginateSlice, and ORDER BY .. DESC with OFFSET and LIMIT.
Page(set, page) == {r \in set : (page - 1) * PageSize < Place(set, r) /\ Place(set, r) <= page * PageSize}

-----------------------------------------------------------------------------
(* The dashboard *)

Figure(name, kinds, today) == [name |-> name, kinds |-> kinds, today |-> today]

Dynamic == {"generation", "community_base", "peer"}

\* Mutation: the total is read before today's earnings.
StatementsTotalFirst ==
  << Figure("totalReward", Earnings, FALSE),
     Figure("todayOne", {"static"}, TRUE), Figure("todayTwo", Dynamic, TRUE) >>

\* The earnings of DashboardStats, in the order of its statements.  Users, buyers, orders, balances and
\* withdraws are left out: each has statements of its own, and totals that may be older than what is beside them.
Statements ==
  << Figure("todayOne", {"static"}, TRUE), Figure("todayTwo", Dynamic, TRUE),
     Figure("totalReward", Earnings, FALSE) >>

Names == {Statements[i].name : i \in DOMAIN Statements}

-----------------------------------------------------------------------------
NoWalk == [pc |-> "idle", list |-> OrderList, page |-> 0, count |-> 0, there |-> {}, seen |-> {}, torn |-> FALSE]
NoBoard == [pc |-> 0, day |-> 0, figures |-> [n \in Names |-> 0]]

ReportsInit ==
  /\ \E kind \in Kinds : rows = {Row(i, kind, 0) : i \in 1..Before}
  /\ writing = {} /\ day = 0
  /\ walk = NoWalk /\ board = NoBoard

\* Its id and created_at are given to a row.
Stamp(kind) ==
  /\ Cardinality(Taken) < Before + MaxRows
  /\ writing' = writing \cup {Row(Cardinality(Taken) + 1, kind, day)}
  /\ UNCHANGED <<rows, day, walk, board>>

\* It becomes visible.
Insert(r) ==
  /\ rows' = rows \cup {r} /\ writing' = writing \ {r}
  /\ walk' = IF walk.pc = "select" THEN [walk EXCEPT !.torn = TRUE] ELSE walk
  /\ UNCHANGED <<day, board>>

Midnight ==
  /\ day < MaxDay /\ day' = day + 1
  /\ UNCHANGED <<rows, writing, walk, board>>

\* A reader asks for the first page of a list.
Open(list) ==
  /\ walk.pc = "idle"
  /\ walk' = [NoWalk EXCEPT !.pc = "count", !.list = list, !.page = 1, !.there = Shown(list)]
  /\ UNCHANGED <<rows, writing, day, board>>

\* COUNT of ListPaged.
Count ==
  /\ walk.pc = "count" /\ walk.list.counts
  /\ walk' = [walk EXCEPT !.pc = "select", !.count = Cardinality(Shown(walk.list)), !.torn = FALSE]
  /\ UNCHANGED <<rows, writing, day, board>>

\* A page is shown with `count` beside it; the reader goes on until it has seen as many.
ShowPage(count) ==
  walk' = [walk EXCEPT !.pc = IF walk.page * PageSize < count THEN "count" ELSE "end",
                       !.page = @ + 1, !.seen = @ \cup Page(Shown(walk.list), walk.page)]

\* SELECT of ListPaged.
Select ==
  /\ walk.pc = "select" /\ ShowPage(walk.count)
  /\ UNCHANGED <<rows, writing, day, board>>

\* A handler that reads the whole list and cuts a page out of it.
PaginateSlice ==
  /\ walk.pc = "count" /\ ~walk.list.counts /\ ShowPage(Cardinality(Shown(walk.list)))
  /\ UNCHANGED <<rows, writing, day, board>>

Close ==
  /\ walk.pc = "end" /\ walk' = NoWalk
  /\ UNCHANGED <<rows, writing, day, board>>

\* CompatAdminAll: the day is that of the request.
OpenBoard ==
  /\ board.pc = 0 /\ board' = [NoBoard EXCEPT !.pc = 1, !.day = day]
  /\ UNCHANGED <<rows, writing, day, walk>>

ReadFigure ==
  /\ board.pc \in DOMAIN Statements
  /\ LET f == Statements[board.pc]
     IN board' = [board EXCEPT !.pc = @ + 1,
          !.figures[f.name] = Cardinality({r \in rows : /\ r.kind \in f.kinds
                                                        /\ f.today => r.day = board.day})]
  /\ UNCHANGED <<rows, writing, day, walk>>

CloseBoard ==
  /\ board.pc = Len(Statements) + 1 /\ board' = NoBoard
  /\ UNCHANGED <<rows, writing, day, walk>>

ReportsNext ==
  \/ \E kind \in Kinds : Stamp(kind)
  \/ \E r \in writing : Insert(r)
  \/ Midnight
  \/ \E list \in Lists : Open(list)
  \/ Count \/ Select \/ PaginateSlice \/ Close
  \/ OpenBoard \/ ReadFigure \/ CloseBoard

ReportsSpec == ReportsInit /\ [][ReportsNext]_reportVars

-----------------------------------------------------------------------------
RowType == [at : 1..(Before + MaxRows), kind : Kinds, day : 0..MaxDay]

WalkState == [pc : {"idle", "count", "select", "end"}, list : Lists, page : Nat, count : Nat,
              there : SUBSET RowType, seen : SUBSET RowType, torn : BOOLEAN]
BoardState == [pc : 0..(Len(Statements) + 1), day : 0..MaxDay, figures : [Names -> Nat]]

ReportsTypeOK ==
  /\ rows \subseteq RowType /\ writing \subseteq RowType
  /\ day \in 0..MaxDay
  /\ walk \in WalkState /\ board \in BoardState

\* Who looks through a list has seen every row that was in it when he began and still is, though rows
\* inserted meanwhile, also below the head of the list, push the others to later pages, and rows grow too
\* old for it; unless one came between the COUNT and the SELECT of his last page.
NothingMissed == walk.pc = "end" /\ ~walk.torn => walk.there \cap Shown(walk.list) \subseteq walk.seen

\* Today's earnings on the dashboard are never more than all earnings beside them, though settlements
\* write between its statements: DashboardStats reads that total after the parts.
TodayWithinTotal ==
  board.pc = Len(Statements) + 1 =>
    board.figures["todayOne"] + board.figures["todayTwo"] <= board.figures["totalReward"]
=============================================================================
