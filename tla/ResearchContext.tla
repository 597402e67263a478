--------------------------- MODULE ResearchContext ---------------------------
(***************************************************************************)
(* get_research_context as its readers use it: over several calls, between *)
(* which others write.  A session pages through the index of a project,    *)
(* latest first, by a cursor that is an offset; or it reads a section of   *)
(* an item in chunks, of which source_links is rebuilt at every call from  *)
(* the documents as they are then.  No call holds a transaction: the index *)
(* reads its page and, by a query of its own, how many items there are,    *)
(* and others write in between.                                            *)
(***************************************************************************)
EXTENDS Integers, Sequences, FiniteSets

CONSTANTS
    Items,          \* identifiers, drawn at random: a set of integers
    Limit,          \* the index's page
    LatestNow,      \* bound on now
    MaxReviews,     \* what updates an item: the request and its decision
    Widths,         \* lengths a document's source version may have
    Chunk           \* chunk_size

\* What the constants are assumed to be, where the module stands beside others.
ContextAssumption ==
    /\ Items \subseteq Int /\ IsFiniteSet(Items)
    /\ {Limit, Chunk} \subseteq Nat \ {0}
    /\ {LatestNow, MaxReviews} \subseteq Nat /\ Widths \subseteq Nat

VARIABLES
    now,        \* datetime('now'), in seconds: ties are common
    rows,       \* research_items by identifier
    index,      \* the session's reading of the index
    width,      \* documents: the length of the source version
    section     \* the session's reading of source_links

contextVars == <<now, rows, index, width, section>>

NoIndex == [state |-> "none", offset |-> 0, seen |-> {}, known |-> {}, changed |-> {}]
NoSection == [state |-> "none", text |-> <<>>]
States == {"none", "reading", "counting", "done"}

\* Between two calls, or between the two queries of one.
Paging == index.state \in {"reading", "counting"}

ContextTypeOK ==
    /\ now \in 0..LatestNow
    /\ DOMAIN rows \subseteq Items
    /\ \A i \in DOMAIN rows :
         rows[i] \in [updated : 0..now, reviews : 0..MaxReviews]
    /\ index \in [state : States, offset : 0..Cardinality(Items), seen : SUBSET Items,
                  known : SUBSET Items, changed : SUBSET Items]
    /\ width \in Widths
    /\ section.state \in States

ContextInit ==
    /\ now = 0 /\ rows = <<>> /\ index = NoIndex
    /\ width \in Widths /\ section = NoSection

LaterNow ==
    /\ now < LatestNow
    /\ now' = now + 1
    /\ UNCHANGED <<rows, index, width, section>>

Changed(i) == index' = IF Paging THEN [index EXCEPT !.changed = @ \cup {i}] ELSE NoIndex

NewItem(i) ==
    /\ i \notin DOMAIN rows
    /\ rows' = [j \in DOMAIN rows \cup {i} |->
                   IF j = i THEN [updated |-> now, reviews |-> 0] ELSE rows[j]]
    /\ Changed(i)
    /\ UNCHANGED <<now, width, section>>

\* A request puts a candidate under review, the decision ends it.
Review(i) ==
    /\ rows[i].reviews < MaxReviews
    /\ rows' = [rows EXCEPT ![i].updated = now, ![i].reviews = @ + 1]
    /\ Changed(i)
    /\ UNCHANGED <<now, width, section>>

NewWidth(w) ==
    /\ width' = w
    /\ UNCHANGED <<now, rows, index, section>>

(***************************************************************************)
(* The index                                                               *)
(***************************************************************************)

\* Mutant: the index begins with what was left alone the longest.
OldestFirst(i, j) ==
    \/ rows[i].updated < rows[j].updated
    \/ rows[i].updated = rows[j].updated /\ i < j

Precedes(i, j) ==
    \/ rows[i].updated > rows[j].updated
    \/ rows[i].updated = rows[j].updated /\ i < j

Place(i) == Cardinality({j \in DOMAIN rows : Precedes(j, i)})

Page(offset) == {i \in DOMAIN rows : Place(i) \in offset..(offset + Limit - 1)}

ReadOn(from, known, changed) ==
    LET page == Page(from.offset)
    IN index' = [state |-> "counting",
                 offset |-> from.offset + Cardinality(page),
                 seen |-> from.seen \cup page,
                 known |-> known,
                 changed |-> changed]

FirstPage ==
    /\ ~Paging /\ section.state # "reading"
    /\ ReadOn(NoIndex, DOMAIN rows, {})
    /\ section' = NoSection
    /\ UNCHANGED <<now, rows, width>>

NextPage ==
    /\ index.state = "reading"
    /\ ReadOn(index, index.known, index.changed)
    /\ UNCHANGED <<now, rows, width, section>>

\* The next cursor is given while the offset is below the number of items, of those
\* that are there by now.
CountItems ==
    /\ index.state = "counting"
    /\ index' = [index EXCEPT !.state =
                    IF index.offset < Cardinality(DOMAIN rows) THEN "reading" ELSE "done"]
    /\ UNCHANGED <<now, rows, width, section>>

(***************************************************************************)
(* A section                                                               *)
(***************************************************************************)

\* The links in JSON, of which the source version is one member.
SourceLinks(w) == <<"open">> \o [k \in 1..w |-> "version"] \o <<"quote", "close">>

IsJson(text) == \E w \in 0..Len(text) : text = SourceLinks(w)

\* An offset beyond the section's end is refused, and the reading begun anew.
ReadSection ==
    LET text == IF section.state = "reading" THEN section.text ELSE <<>>
        value == SourceLinks(width)
        end == IF Len(text) + Chunk < Len(value) THEN Len(text) + Chunk ELSE Len(value)
    IN /\ ~Paging /\ index' = NoIndex
       /\ section' = IF Len(text) > Len(value) THEN NoSection
                     ELSE [state |-> IF end < Len(value) THEN "reading" ELSE "done",
                           text |-> text \o SubSeq(value, Len(text) + 1, end)]
       /\ UNCHANGED <<now, rows, width>>

ContextNext ==
    \/ LaterNow
    \/ \E i \in Items : NewItem(i)
    \/ \E i \in DOMAIN rows : Review(i)
    \/ \E w \in Widths : NewWidth(w)
    \/ FirstPage \/ NextPage \/ CountItems
    \/ ReadSection

ContextSpec == ContextInit /\ [][ContextNext]_contextVars

(***************************************************************************)
(* Properties                                                              *)
(***************************************************************************)

\* What the index had when a session began to page through it is on one of its
\* pages, unless it was written meanwhile: the offsets of a growing and
\* reordered index repeat items, and skip only what moved to its front; and the
\* count that ends the reading, though it is read after the page, never ends it
\* short of an item.  Every variable has its type.
PagesMissNothing ==
    /\ ContextTypeOK
    /\ index.state = "done" => index.known \ index.changed \subseteq index.seen

\* The tool contract: the chunks of a section that is JSON become valid JSON
\* after their concatenation.
SectionsJoin == section.state = "done" => IsJson(section.text)
==============================================================================
