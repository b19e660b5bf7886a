--------------------------- MODULE GraphemeSegment ---------------------------
(***************************************************************************)
(* grapheme_segment::segment_offsets(): which neighbours in a sequence of  *)
(* grapheme break properties stay together.  Pairs of regional indicators, *)
(* which make flags, need the count of those that came before.             *)
(***************************************************************************)
EXTENDS Integers, Sequences, FiniteSets, SequencesExt

VARIABLES
    properties,       \* the argument, break_properties
    index,            \* the loop counter
    segmentOffsets,   \* the result, offsets
    regionalCount,    \* continuous_regional_count
    segmenting        \* "idle", "run" or "end"

segmentVars == <<properties, index, segmentOffsets, regionalCount, segmenting>>

BreakProperty == {"cr", "lf", "control", "extend", "zwj", "regional", "prepend",
                  "spacing_mark", "l", "v", "t", "lv", "lvt", "other"}

\* make_connecting_pair_set()
Modifier == {"extend", "zwj", "spacing_mark"}
Connecting ==
    {<<"cr", "lf">>, <<"zwj", "other">>, <<"regional", "regional">>}
    \cup (BreakProperty \ {"cr", "lf", "control"}) \X Modifier
    \cup {"prepend"} \X (BreakProperty \ {"cr", "lf", "control"})
    \cup {"l"} \X {"l", "v", "lv", "lvt"}
    \cup {"v", "lv"} \X {"v", "t"}
    \cup {"t", "lvt"} \X {"t"}

NoSegments ==
    /\ properties = <<>> /\ index = 0 /\ segmentOffsets = <<>>
    /\ regionalCount = 0 /\ segmenting = "idle"

SegmentingStarts(breaks) ==
    /\ properties = breaks
    /\ segmentOffsets = IF breaks = <<>> THEN <<>> ELSE <<0>>
    /\ index = 1 /\ regionalCount = 0
    /\ segmenting = IF breaks = <<>> THEN "end" ELSE "run"

StartSegmenting(breaks) ==
    /\ properties' = breaks
    /\ segmentOffsets' = IF breaks = <<>> THEN <<>> ELSE <<0>>
    /\ index' = 1 /\ regionalCount' = 0
    /\ segmenting' = IF breaks = <<>> THEN "end" ELSE "run"
----------------------------------------------------------------------------
\* The program counts from 0: properties[i - 1] and properties[i].
Before == properties[index]
After  == properties[index + 1]
InLoop == segmenting = "run" /\ index < Len(properties)

Connects ==
    /\ <<Before, After>> \in Connecting
    /\ After = "regional" => regionalCount % 2 = 0

Connect ==
    /\ InLoop /\ Connects
    /\ regionalCount' = IF Before = "regional" THEN regionalCount + 1 ELSE 0
    /\ index' = index + 1
    /\ UNCHANGED <<properties, segmentOffsets, segmenting>>

\* Variant: the count goes on over a break.
BreakKeepsCount ==
    /\ InLoop /\ ~Connects
    /\ segmentOffsets' = Append(segmentOffsets, index)
    /\ index' = index + 1
    /\ UNCHANGED <<properties, regionalCount, segmenting>>

Break ==
    /\ InLoop /\ ~Connects
    /\ regionalCount' = 0
    /\ segmentOffsets' = Append(segmentOffsets, index)
    /\ index' = index + 1
    /\ UNCHANGED <<properties, segmenting>>

SegmentEnd ==
    /\ segmenting = "run" /\ index = Len(properties)
    /\ segmentOffsets' = Append(segmentOffsets, index)
    /\ segmenting' = "end"
    /\ UNCHANGED <<properties, index, regionalCount>>

Segment == Connect \/ Break \/ SegmentEnd
=============================================================================
