------------------------------- MODULE Pages -------------------------------
(***************************************************************************)
(* The listings of the administration channel.  list_tasks, list_records,  *)
(* list_grants and list_sessions return a page cut to what one frame holds *)
(* (bounded_page of src/agent/admin_view.rs).  The human asks for page     *)
(* after page by offset while agents go on working, so that entries come   *)
(* and go between two pages.                                               *)
(*                                                                         *)
(* An entry is an identifier and the length of its JSON; a frame holds     *)
(* Frame of it besides the rest of the answer.                             *)
(***************************************************************************)
EXTENDS Naturals, SequencesExt

CONSTANTS
    PAGE,       \* entries of a page
    Frame,      \* MAX_FRAME_BYTES
    Sizes,      \* lengths of entries
    Capacity,   \* bound: entries at a time
    MaxChanges  \* bound: changes during a listing

ASSUME PagesAssumption ==
    /\ {PAGE, Frame, Capacity} \subseteq Nat \ {0}
    /\ MaxChanges \in Nat
    /\ Sizes \subseteq Nat \ {0}

VARIABLES
    items,    \* the entries in the order of the collection: [id, size]
    offset,   \* offset of the next request
    page,     \* the last answer
    done,     \* whether the human has read to the end
    seen,     \* history: identifiers read, in order
    changes,  \* changes so far
    steady,   \* history: identifiers in the collection all along
    added,    \* history: whether an entry was added since the listing began
    removed   \* history: whether an entry was removed since the listing began

vars == <<items, offset, page, done, seen, changes, steady, added, removed>>

Ids(entries) == [i \in DOMAIN entries |-> entries[i].id]

Length(entries) ==
    LET length[n \in 0 .. Len(entries)] == IF n = 0 THEN 0 ELSE length[n - 1] + entries[n].size
    IN  length[Len(entries)]

\* fits_frame
Fits(entries) == Length(entries) <= Frame

Answer(entries, more) == [ok |-> TRUE, entries |-> entries, has_more |-> more]

Refused == [ok |-> FALSE, entries |-> <<>>, has_more |-> FALSE]

\* Mutant: the page starts after the entry the offset names.
RestLate(o) == SubSeq(items, o + 2, IF o + PAGE < Len(items) THEN o + PAGE ELSE Len(items))

\* Mutant: the page starts with the entry before, the last one shown.
RestAgain(o) == SubSeq(items, IF o = 0 THEN 1 ELSE o, IF o + PAGE < Len(items) THEN o + PAGE ELSE Len(items))

\* skip(offset).take(PAGE)
Rest(o) == SubSeq(items, o + 1, IF o + PAGE < Len(items) THEN o + PAGE ELSE Len(items))

\* Mutant: the shorter page still says what the full one would have said.
CutStale(o, count) == Answer(SubSeq(Rest(o), 1, count), o + Len(Rest(o)) < Len(items))

Cut(o, count) == Answer(SubSeq(Rest(o), 1, count), o + count < Len(items))

\* The loop of bounded_page, from count downwards.
Shrink(o) ==
    LET shrink[count \in 0 .. PAGE] ==
            IF count = 0 THEN Refused
            ELSE IF Fits(SubSeq(Rest(o), 1, count)) THEN Cut(o, count) ELSE shrink[count - 1]
    IN  shrink[Len(Rest(o))]

\* Mutant: an offset past the end is answered as any other, with nothing.
bounded_page_total(o) == IF Rest(o) = <<>> THEN Answer(<<>>, TRUE) ELSE Shrink(o)

bounded_page(o) == IF Rest(o) = <<>> THEN Answer(<<>>, FALSE) ELSE Shrink(o)

Collections ==
    {[i \in DOMAIN sizes |-> [id |-> i, size |-> sizes[i]]] : sizes \in SeqOf(Sizes, Capacity)}

Init ==
    /\ items \in Collections
    /\ offset = 0 /\ page = Answer(<<>>, TRUE) /\ done = FALSE
    /\ seen = <<>> /\ changes = 0 /\ added = FALSE /\ removed = FALSE
    /\ steady = ToSet(Ids(items))

-----------------------------------------------------------------------------

\* AGENT-RUNTIME.md:67: the next offset is the number of entries returned; an
\* answer that is refused makes the human try the next entry.
Request ==
    /\ ~done
    /\ page' = bounded_page(offset)
    /\ offset' = IF page'.ok THEN offset + Len(page'.entries) ELSE offset + 1
    /\ done' = (page'.ok /\ ~page'.has_more)
    /\ seen' = seen \o Ids(page'.entries)
    /\ UNCHANGED <<items, changes, steady, added, removed>>

Fresh == Capacity + changes + 1

\* Identifiers are random, so that a new entry may come anywhere.
EntryAdded ==
    /\ ~done /\ changes < MaxChanges /\ Len(items) < Capacity
    /\ \E size \in Sizes, i \in 1 .. Len(items) + 1 :
        items' = InsertAt(items, i, [id |-> Fresh, size |-> size])
    /\ changes' = changes + 1
    /\ added' = TRUE
    /\ UNCHANGED <<offset, page, done, seen, steady, removed>>

\* Compaction drops entries anywhere.
EntryRemoved ==
    /\ ~done /\ changes < MaxChanges
    /\ \E i \in DOMAIN items : items' = RemoveAt(items, i)
    /\ changes' = changes + 1
    /\ steady' = steady \cap ToSet(Ids(items'))
    /\ removed' = TRUE
    /\ UNCHANGED <<offset, page, done, seen, added>>

Next == Request \/ EntryAdded \/ EntryRemoved

Spec == Init /\ [][Next]_vars /\ WF_vars(Request)

-----------------------------------------------------------------------------
(* Properties                                                              *)

\* The entries a single frame can carry.
Sendable(entry) == entry.size <= Frame

\* A listing shows every entry that was there from its beginning to its end,
\* unless something was removed meanwhile or the entry alone exceeds a frame,
\* and shows none twice unless something was added meanwhile (bounded_page,
\* Sessions::list).
ListingComplete ==
    done =>
        /\ ~removed => \A i \in DOMAIN items :
              items[i].id \in steady /\ Sendable(items[i]) => items[i].id \in ToSet(seen)
        /\ ~added => IsInjective(seen)

\* A page holds as much as PAGE and the frame allow, and says truthfully
\* whether entries follow (bounded_page against its doc comment).
PageIsLongest ==
    \A o \in 0 .. Len(items) :
        LET answer == bounded_page(o)
            fitting == {n \in 1 .. Len(Rest(o)) : Fits(SubSeq(items, o + 1, o + n))}
        IN  IF answer.ok
            THEN /\ answer.entries = SubSeq(items, o + 1, o + Len(answer.entries))
                 /\ \A n \in fitting : n <= Len(answer.entries)
                 /\ answer.has_more <=> o + Len(answer.entries) < Len(items)
            ELSE ~Sendable(items[o + 1])

\* A human who keeps asking comes to the end of the listing, also when
\* entries are added and removed meanwhile.
ListingEnds == <>done
=============================================================================
