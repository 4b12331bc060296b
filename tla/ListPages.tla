----------------------------- MODULE ListPages ------------------------------
(***************************************************************************)
(* The lists a client walks page by page: customers, the app's own pending *)
(* customers and its history, call logs, assignment logs, batches.  Every  *)
(* page is a request of its own, and takes two statements, the count and   *)
(* the rows; in between, other requests assign, report, edit, delete and   *)
(* insert the rows of the list.                                            *)
(*                                                                         *)
(* A row has the columns its list filters by: owner is the owner of a      *)
(* customer, the caller of a call, the target of an assignment, the        *)
(* creator of a batch.  A call's text and a customer's is the phone, a     *)
(* batch's its name; the assignment logs have no search.  Sorting is by    *)
(* id, the default of all these lists but the history: in an order by      *)
(* updatedAt every edit moves a row, and no walk can be relied on.         *)
(***************************************************************************)
EXTENDS Integers, FiniteSets, SequencesExt

CONSTANTS
  Ids,            \* the ids the table hands out, 1 .. n
  Characters,     \* what texts are made of
  Lower,          \* each character in lower case, if it is a letter of ASCII
  Users, Me,      \* Me is the user that asks
  NoUser,
  FirstTexts,     \* the texts the table may start with, by id
  NewTexts,       \* the texts of the rows that are inserted later
  Needles,        \* what is searched for, <<>> when nothing is
  Sizes,          \* the pagesize a client sends
  DefaultSize, MaxSize,
  MaxEdits        \* bound: what others may do to the table during the walk

(* A text is a sequence of characters; the table starts with some of its   *)
(* ids.  The characters LIKE gives a meaning are no letters.               *)
ASSUME ListAssumption ==
  /\ Ids \subseteq Nat /\ Me \in Users
  /\ {"%", "_", "\\"} \subseteq Characters
  /\ Lower \in [Characters -> Characters]
  /\ \A c \in Characters : /\ Lower[Lower[c]] = Lower[c]
                           /\ {c, Lower[c]} \cap {"%", "_", "\\"} # {} => Lower[c] = c
  /\ \A texts \in FirstTexts : texts \in Seq(Seq(Characters)) /\ DOMAIN texts \subseteq Ids
  /\ NewTexts \subseteq Seq(Characters) /\ Needles \subseteq Seq(Characters)
  /\ Sizes \subseteq Nat /\ DefaultSize \in Nat \ {0} /\ MaxSize \in Nat \ {0}

VARIABLES
  rows,      \* the table, by id
  query,     \* what the walk asks for
  page,      \* the page it is at
  stage,     \* the statement that is awaited, or "done"
  total,     \* the count that goes with the next page
  shown,     \* the rows of all pages so far, each as it was shown
  began,     \* history: the ids in the list when the walk began
  left,      \* history: whether some row has left the list since
  edits      \* the number of changes so far

walkVars == <<rows, query, page, stage, total, shown, began, left, edits>>

Row == [owner : Users \cup {NoUser}, status : {0, 1}, isDeleted : {0, 1}, text : Seq(Characters)]
Lists == {"customers", "my_customers", "history", "call_logs", "assignment_logs", "batches"}
CustomerLists == {"customers", "my_customers", "history"}

Query == [list : Lists, owned : {"any", "yes", "no"}, needle : Needles,
          ascending : BOOLEAN, size : Sizes]

(* The app's lists always are of the caller; the assignment logs cannot be *)
(* searched by text; only customers and assignments can be asked for that  *)
(* have no owner; the history refuses a page size of 0.                    *)
ValidQuery(q) ==
  /\ q.list \in {"my_customers", "history"} => q.owned = "yes"
  /\ q.list = "assignment_logs" => q.needle = <<>>
  /\ q.owned = "no" => q.list \in {"customers", "assignment_logs"}
  /\ q.list = "history" => q.size # 0

-----------------------------------------------------------------------------
(* SQLite's LIKE: % stands for any text, _ for any one character; with     *)
(* ESCAPE '\' the character after a \ stands for itself.  A letter stands   *)
(* for itself in either case: case_sensitive_like is off by default.       *)
Wildcards == {"%", "_"}

(* How much of the text the pattern so far may stand for, and whether its  *)
(* last character was the escape character.                                *)
LikeStep(text, state, char, escapes) ==
  LET literal ==
        [at |-> {i \in 1 .. Len(text) : i - 1 \in state.at /\ Lower[text[i]] = Lower[char]},
         escaped |-> 0]
  IN CASE state.escaped = 1 -> literal
       [] state.escaped = 0 /\ char = "%" ->
            [at |-> {i \in 0 .. Len(text) : \E k \in state.at : k <= i}, escaped |-> 0]
       [] state.escaped = 0 /\ char = "_" ->
            [at |-> {i \in 1 .. Len(text) : i - 1 \in state.at}, escaped |-> 0]
       [] state.escaped = 0 /\ char = "\\" /\ escapes -> [at |-> state.at, escaped |-> 1]
       [] OTHER -> literal

LikeScan(text, pattern, escapes) ==
  LET scan[j \in 0 .. Len(pattern)] ==
        IF j = 0 THEN [at |-> {0}, escaped |-> 0]
        ELSE LikeStep(text, scan[j - 1], pattern[j], escapes)
  IN scan[Len(pattern)]

Like(text, pattern, escapes) ==
  LET end == LikeScan(text, pattern, escapes) IN Len(text) \in end.at /\ end.escaped = 0

replaceAll(text, char) ==
  FlattenSeq([i \in 1 .. Len(text) |-> IF text[i] = char THEN <<"\\", char>> ELSE <<text[i]>>])

(* Mutant: the backslash last, after those that were just put in.          *)
escapeBackslashLast(value) == replaceAll(replaceAll(replaceAll(value, "%"), "_"), "\\")

escapeLikeValue(value) == replaceAll(replaceAll(replaceAll(value, "\\"), "%"), "_")

Around(needle) == <<"%">> \o needle \o <<"%">>

(* The text as such: what instr() looks for.                               *)
ContainsText(text, needle) ==
  \E i \in 0 .. Len(text) : /\ i + Len(needle) <= Len(text)
                            /\ SubSeq(text, i + 1, i + Len(needle)) = needle

(* Batches are searched with instr; the history with LIKE and no ESCAPE.   *)
MatchesText(list, text, needle) ==
  \/ needle = <<>>
  \/ list = "batches" /\ ContainsText(text, needle)
  \/ list # "batches" /\ Like(text, Around(escapeLikeValue(needle)), list # "history")

OwnerCondition(q, row) ==
  CASE q.owned = "any" -> TRUE
    [] q.owned = "no" -> row.owner = NoUser
    [] q.owned = "yes" /\ q.list = "customers" -> row.owner # NoUser
    [] q.owned = "yes" /\ q.list # "customers" -> row.owner = Me

ForcedConditions(q, row) ==
  CASE q.list \in {"customers", "batches"} -> row.isDeleted = 0
    [] q.list = "my_customers" -> row.status = 0 /\ row.isDeleted = 0
    [] q.list = "history" -> row.status > 0 /\ row.isDeleted = 0
    [] OTHER -> TRUE

WhereClause(q, table) ==
  {i \in DOMAIN table : /\ ForcedConditions(q, table[i]) /\ OwnerCondition(q, table[i])
                        /\ MatchesText(q.list, table[i].text, q.needle)}

(* What a search means: %, _ and \ are characters like others, and but for *)
(* batches upper and lower case are the same.                              *)
LowerCase(text) == [i \in DOMAIN text |-> Lower[text[i]]]

ContainsNeedle(list, text, needle) ==
  IF list = "batches" THEN ContainsText(text, needle)
  ELSE ContainsText(LowerCase(text), LowerCase(needle))

(* The same by what is meant: what the walk should find.                   *)
Wanted(q, table) ==
  {i \in DOMAIN table : /\ ForcedConditions(q, table[i]) /\ OwnerCondition(q, table[i])
                        /\ ContainsNeedle(q.list, table[i].text, q.needle)}

(* order by id: the rows that come before row i.                           *)
Ahead(q, ids, i) == {j \in ids : IF q.ascending THEN j < i ELSE j > i}

parsePageSize(size) ==
  IF size = 0 THEN DefaultSize ELSE IF size > MaxSize THEN MaxSize ELSE size

(* Mutant: pages counted from 1.                                           *)
OffsetFromOne(q, p) == (p + 1) * parsePageSize(q.size)

Offset(q, p) == p * parsePageSize(q.size)

(* limit ? offset ? *)
Page(q, p, ids) ==
  {i \in ids : /\ Cardinality(Ahead(q, ids, i)) >= Offset(q, p)
               /\ Cardinality(Ahead(q, ids, i)) < Offset(q, p) + parsePageSize(q.size)}

-----------------------------------------------------------------------------
(* An employee's lists are his own; an assignment may take a customer      *)
(* away, a call and a batch have a user.                                   *)
OwnersIn(list) ==
  CASE list \in {"my_customers", "history"} -> {Me}
    [] list \in {"customers", "assignment_logs"} -> Users \cup {NoUser}
    [] OTHER -> Users

FirstRow(list, text) ==
  [owner : OwnersIn(list), status : {IF list = "history" THEN 1 ELSE 0}, isDeleted : {0},
   text : {text}]

InitWalk ==
  /\ query \in {q \in Query : ValidQuery(q)}
  /\ \E texts \in FirstTexts :
       rows \in {r \in [DOMAIN texts -> UNION {FirstRow(query.list, t) : t \in Range(texts)}] :
                   \A i \in DOMAIN texts : r[i].text = texts[i]}
  /\ page = 0 /\ stage = "count" /\ total = 0 /\ shown = {}
  /\ began = Wanted(query, rows) /\ left = FALSE /\ edits = 0

CountRows ==
  /\ stage = "count"
  /\ total' = Cardinality(WhereClause(query, rows))
  /\ stage' = "rows"
  /\ UNCHANGED <<rows, query, page, shown, began, left, edits>>

(* A page that is not full is the last one.                                *)
SelectRows ==
  /\ stage = "rows"
  /\ LET list == Page(query, page, WhereClause(query, rows)) IN
       /\ shown' = shown \cup {[id |-> i, text |-> rows[i].text] : i \in list}
       /\ IF Cardinality(list) < parsePageSize(query.size)
            THEN stage' = "done" /\ UNCHANGED page
            ELSE stage' = "count" /\ page' = page + 1
  /\ UNCHANGED <<rows, query, total, began, left, edits>>

-----------------------------------------------------------------------------
(* What others do to the table, each in one statement.                     *)
ChangeRows(table) ==
  /\ stage # "done" /\ edits < MaxEdits
  /\ rows' = table /\ edits' = edits + 1
  /\ left' = (left \/ ~ (Wanted(query, rows) \subseteq Wanted(query, table)))
  /\ UNCHANGED <<query, page, stage, total, shown, began>>

LiveCustomers == {i \in DOMAIN rows : query.list \in CustomerLists /\ rows[i].isDeleted = 0}

Assign(i, u) == i \in LiveCustomers /\ ChangeRows([rows EXCEPT ![i].owner = u])
SetStatus(i, s) == i \in LiveCustomers /\ ChangeRows([rows EXCEPT ![i].status = s])
Delete(i) == i \in LiveCustomers /\ ChangeRows([rows EXCEPT ![i].isDeleted = 1])

(* A failed import takes its empty batch back; isDeleted stands for a row  *)
(* that is gone.                                                           *)
TakeBack(i) ==
  /\ query.list = "batches" /\ rows[i].isDeleted = 0
  /\ ChangeRows([rows EXCEPT ![i].isDeleted = 1])

OwnersOfNew(list) == IF list \in CustomerLists THEN {NoUser} ELSE OwnersIn(list)

(* Ids grow and none is used again (AUTOINCREMENT).                        *)
Insert(owner, text) ==
  LET next == CHOOSE i \in Ids \ DOMAIN rows : \A j \in Ids \ DOMAIN rows : i <= j
      new == [owner |-> owner, status |-> 0, isDeleted |-> 0, text |-> text]
  IN ChangeRows([i \in DOMAIN rows \cup {next} |-> IF i = next THEN new ELSE rows[i]])

Others ==
  \/ \E i \in DOMAIN rows, u \in Users \cup {NoUser} : Assign(i, u)
  \/ \E i \in DOMAIN rows, s \in {0, 1} : SetStatus(i, s)
  \/ \E i \in DOMAIN rows : Delete(i) \/ TakeBack(i)
  \/ \E owner \in OwnersOfNew(query.list), text \in NewTexts :
       Ids \ DOMAIN rows # {} /\ Insert(owner, text)

NextWalk == CountRows \/ SelectRows \/ Others

SpecWalk == InitWalk /\ [][NextWalk]_walkVars

-----------------------------------------------------------------------------
(* The lists whose search takes %, _ and \ for plain characters, and every *)
(* list when the needle has none of them.                                  *)
SearchesPlainly(q) ==
  q.list = "history" => \A i \in DOMAIN q.needle : q.needle[i] \notin Wildcards \cup {"\\"}

(* A search shows only rows that contain what was searched for, with %, _  *)
(* and \ taken for themselves, in the same case (batches) or in any.       *)
ListMatchesFilter ==
  SearchesPlainly(query) => \A r \in shown : ContainsNeedle(query.list, r.text, query.needle)

(* A walk that goes on until a page is not full has shown every row that   *)
(* was in the list when it began and contains what was searched for,       *)
(* whatever came into the list meanwhile and wherever it came in -- unless *)
(* a row has left the list, which moves the rows behind it one place to    *)
(* the front, past the page that is asked for next.                        *)
WalkSkipsNothing ==
  stage = "done" /\ ~left /\ SearchesPlainly(query) => began \subseteq {r.id : r \in shown}
=============================================================================
