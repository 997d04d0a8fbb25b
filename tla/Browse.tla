------------------------------- MODULE Browse -------------------------------
(***************************************************************************)
(* What an agent sees of the namespace (namespace_browse.py over           *)
(* adapters/memory.py): documents by path, directories made up from the    *)
(* paths, and long texts read in windows while their writers append.       *)
(*                                                                         *)
(* A path is the sequence of its segments; a text is its number of lines,  *)
(* each line being its position; a binary document is its content.         *)
(***************************************************************************)
EXTENDS Naturals, Sequences, SequencesExt

CONSTANTS Windows,     \* values of the limit argument of read and grep
          Matching,    \* the lines of the text a reader's pattern matches
          MaxLines     \* bound: lines a text grows to

ASSUME MaxLinesNat == MaxLines \in Nat
ASSUME WindowsPositive == Windows \subseteq Nat \ {0}

VARIABLES total,       \* lines of the text that is read
          offset,      \* read's next offset argument; 0 before, and after the end
          collected    \* the lines the pages have shown

reading == <<total, offset, collected>>

-----------------------------------------------------------------------------
(* ls: a pure function of the stored paths.                                *)

list_docs(paths, prefix) == {p \in paths : IsPrefix(prefix, p)}

\* Files directly under path, and the first segments of what lies deeper.
list_dir(paths, path) ==
    LET below == {p \in list_docs(paths, path) : Len(p) > Len(path)} IN
    {[name |-> p[Len(path) + 1],
      kind |-> IF Len(p) = Len(path) + 1 THEN "file" ELSE "directory"] : p \in below}

(* grep, of a text of n lines: the line numbers of its first limit matches. *)

grep_docs(n, limit) ==
    {i \in 1..n : i \in Matching /\ Cardinality({j \in 1..(i - 1) : j \in Matching}) < limit}

(* read, of a text of n lines.                                             *)

\* Mutant: the offset is taken as the first index.
read_doc_OffsetFromZero(n, from, limit) ==
    IF from >= n THEN [first |-> 1, last |-> 0, truncated |-> FALSE]
    ELSE LET end == Min({n, from + limit})
         IN  [first |-> from + 1, last |-> end, truncated |-> end < n]

\* The lines first..last, none for an offset past the end.
read_doc(n, from, limit) ==
    LET start == IF from = 0 THEN 0 ELSE from - 1 IN
    IF start >= n THEN [first |-> 1, last |-> 0, truncated |-> FALSE]
    ELSE LET end == Min({n, start + limit})
         IN  [first |-> start + 1, last |-> end, truncated |-> end < n]

-----------------------------------------------------------------------------
BrowseInit ==
    /\ total = 1
    /\ offset = 0
    /\ collected = <<>>

\* The text's writers append a line.
Grow ==
    /\ total < MaxLines
    /\ total' = total + 1
    /\ UNCHANGED <<offset, collected>>

\* render_read's "Call `read` again with offset=... to continue."
NextOffset(page) == IF page.truncated THEN page.last + 1 ELSE 0

\* The reader goes to a line grep has shown.
Jump(limit) ==
    /\ collected = <<>>
    /\ offset' \in grep_docs(total, limit)
    /\ UNCHANGED <<total, collected>>

\* One read call, the hint of the last one followed.
ReadPage(limit) ==
    LET page == read_doc(total, offset, limit) IN
    /\ collected = <<>> \/ offset # 0
    /\ collected' = collected \o [i \in 1..(page.last + 1 - page.first) |-> page.first + i - 1]
    /\ offset' = NextOffset(page)
    /\ UNCHANGED total

\* The reader turns to reading the text anew.
Reopen ==
    /\ collected # <<>> /\ offset = 0
    /\ collected' = <<>>
    /\ UNCHANGED <<total, offset>>

-----------------------------------------------------------------------------
\* Following read's hints from the top, or from a line that grep found, shows
\* that line and every one after it once and in order, also of a text that grows
\* between the calls: each page continues where the last one ended, and the
\* hints stop exactly when the text, as it then is, was shown to its end.
PagesJoin ==
    [][collected' # collected /\ collected' # <<>> =>
         LET first == collected'[1] IN
         /\ collected' = [i \in 1..Len(collected') |-> first + i - 1]
         /\ collected = <<>> => first \in IF offset = 0 THEN {1} ELSE Matching
         /\ offset' = IF collected'[Len(collected')] = total THEN 0
                      ELSE collected'[Len(collected')] + 1]_reading
=============================================================================
