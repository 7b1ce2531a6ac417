------------------------------ MODULE TagStorage ------------------------------
(***************************************************************************)
(* Storage of the tags of a stream (lib/tag_storage_impl): each call looks   *)
(* at the tags of its input and of some items after it, so that most tags    *)
(* are seen by several calls.                                               *)
(*                                                                         *)
(* A tag is its offset, its key and a number that orders the tags at one     *)
(* offset as they were added.  Upstream adds a tag at any time of its call   *)
(* (add_item_tag), in any order, and the tag is visible at once, also to a   *)
(* call that runs before the item of the tag is produced; the multimap of    *)
(* the runtime keeps the tags by offset (external).                          *)
(***************************************************************************)
EXTENDS Integers, Sequences, SequencesExt, FiniteSets

CONSTANTS
  LookAhead,         \* items behind the input whose tags are looked at (20)
  MaxItems,          \* bound: items of the stream
  MaxWrite,          \* bound: items produced or consumed by one call
  MaxTags            \* bound: tags of the stream

ASSUME StorageAssumption == {LookAhead, MaxItems, MaxWrite, MaxTags} \subseteq Nat

VARIABLES
  stream,            \* the tags that upstream has added
  ordered,           \* history: upstream has added them in the order of the stream
  nitems_written,    \* items upstream has produced
  nitems_read,       \* items the block has consumed
  d_tags,            \* the stored tags
  d_eof_offset,      \* offset of the EOF tag, -1 for none
  d_eof_signalled,   \* finished()
  running            \* the block's thread has not ended

storageVars ==
  <<stream, ordered, nitems_written, nitems_read, d_tags, d_eof_offset, d_eof_signalled,
    running>>

AllTags == [offset : 0 .. MaxItems, key : {"EOF", "other"}, num : 1 .. 2]

IsEof(tag)  == tag.key = "EOF"
Before(s, t) == s.offset < t.offset \/ (s.offset = t.offset /\ s.num < t.num)

\* The tags in the order of the stream: tag k has k - 1 before it
InOrder(tags) ==
  [k \in 1 .. Cardinality(tags) |->
     CHOOSE t \in tags : Cardinality({s \in tags : Before(s, t)}) = k - 1]

\* The tags added within a range, whether or not their items are produced yet;
\* the runtime returns them by offset
get_tags_in_range(start, end) == {t \in stream : start <= t.offset /\ t.offset < end}

\* Mutant of IsNew: every tag is stored
IsNew_Always(tag) == TRUE

IsNew(tag) == \A i \in 1 .. Len(d_tags) : d_tags[i] # tag

\* Mutant of RangeEnd: the look-ahead does not count from the end of the input
RangeEnd_Ahead(num_inputs) == nitems_read + LookAhead

\* The items of a call whose tags are looked at
RangeEnd(num_inputs) == nitems_read + num_inputs + LookAhead

\* The last EOF tag of those added counts
EofOffset(new) ==
  LET eofs == {i \in 1 .. Len(new) : IsEof(new[i])}
  IN IF eofs = {} THEN d_eof_offset ELSE new[Max(eofs)].offset

processTags(num_inputs) ==
  LET new == InOrder({t \in get_tags_in_range(nitems_read, RangeEnd(num_inputs)) : IsNew(t)})
  IN d_tags' = d_tags \o new /\ d_eof_offset' = EofOffset(new)

-----------------------------------------------------------------------------
\* Upstream adds a tag to one of the items of its call, none of which is
\* produced yet
add_item_tag(t) ==
  /\ Cardinality(stream) < MaxTags
  /\ nitems_written <= t.offset /\ t.offset < nitems_written + MaxWrite
  /\ \A s \in stream : s.offset = t.offset => s.num < t.num
  /\ stream' = stream \cup {t}
  /\ ordered' = (ordered /\ \A s \in stream : Before(s, t))
  /\ UNCHANGED <<nitems_written, nitems_read, d_tags, d_eof_offset, d_eof_signalled, running>>

\* Upstream produces items
produce(n) ==
  /\ nitems_written + n <= MaxItems
  /\ nitems_written' = nitems_written + n
  /\ UNCHANGED <<stream, ordered, nitems_read, d_tags, d_eof_offset, d_eof_signalled, running>>

\* Mutant of ReachesEof: the EOF tag ends the block when it is seen
ReachesEof_Seen(n) == d_eof_offset' # -1

ReachesEof(n) == d_eof_offset' # -1 /\ nitems_read + n >= d_eof_offset'

general_work(n) ==
  /\ running /\ ~d_eof_signalled /\ nitems_read + n <= nitems_written
  /\ processTags(n)
  /\ nitems_read' = nitems_read + n
  /\ d_eof_signalled' = ReachesEof(n)
  /\ UNCHANGED <<stream, ordered, nitems_written, running>>

\* The thread ends: work() returned WORK_DONE, or the flow graph is stopped
stop ==
  /\ running
  /\ processTags(0)
  /\ d_eof_signalled' = TRUE
  /\ running' = FALSE
  /\ UNCHANGED <<stream, ordered, nitems_written, nitems_read>>

StorageInit ==
  /\ stream = {} /\ ordered = TRUE
  /\ nitems_written = 0 /\ nitems_read = 0
  /\ d_tags = <<>> /\ d_eof_offset = -1
  /\ d_eof_signalled = FALSE /\ running = TRUE

StorageNext ==
  \/ \E t \in AllTags : add_item_tag(t)
  \/ \E n \in 1 .. MaxWrite : produce(n) \/ general_work(n)
  \/ stop

StorageSpec == StorageInit /\ [][StorageNext]_storageVars

-----------------------------------------------------------------------------
(* Properties *)

\* A tag is stored once, although several calls see it, and no tag of an item
\* that was consumed is missed, whenever and in whatever order upstream added
\* it: the look-ahead never has to find it (processTags, general_work).
EveryTagOnce ==
  /\ \A i, j \in 1 .. Len(d_tags) : d_tags[i] = d_tags[j] => i = j
  /\ \A t \in stream : t.offset < nitems_read => \E i \in 1 .. Len(d_tags) : d_tags[i] = t

\* If upstream adds its tags in order, the list has them in the order of the
\* stream and without a gap, although the look-ahead stores tags of items that
\* are not there yet, while others are still being added (processTags).
\* If upstream does not, a later tag may be seen and stored before an earlier one.
TagsInStreamOrder == ordered => IsPrefix(d_tags, InOrder(stream))

\* finished() is true when the items before the EOF tag are consumed, not when
\* the tag is only seen ahead of them.  Of several EOF tags the one stored last
\* counts: one that is seen together with another one, or before that one is
\* reached, moves the end (d_eof_offset in general_work and processTags).
FinishedAtEof ==
  LET eofs == {i \in 1 .. Len(d_tags) : IsEof(d_tags[i])}
  IN running => (d_eof_signalled <=> eofs # {} /\ d_tags[Max(eofs)].offset <= nitems_read)
=============================================================================
