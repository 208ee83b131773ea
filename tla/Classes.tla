------------------------------ MODULE Classes ------------------------------
(* The message classes without nested messages, and virtual dispatch: method *)
(* M of the class named c is ClassM(c, ...).                                 *)
EXTENDS Protobuf, FiniteSetsExt

Counter   == INSTANCE CounterProto
Stopwatch == INSTANCE StopwatchProto
Summary   == INSTANCE SummaryProto
Remote    == INSTANCE RemoteObjectProto

FlatClasses == {"counter", "stopwatch", "summary", "remote"}

ClassSchema(c) ==
    CASE c = "counter"   -> Counter!Schema
      [] c = "stopwatch" -> Stopwatch!Schema
      [] c = "summary"   -> Summary!Schema
      [] c = "remote"    -> Remote!Schema
ClassNew(c) ==
    CASE c = "counter"   -> Counter!New
      [] c = "stopwatch" -> Stopwatch!New
      [] c = "summary"   -> Summary!New
      [] c = "remote"    -> Remote!New
ClassClear(c, m) ==
    CASE c = "counter"   -> Counter!Clear(m)
      [] c = "stopwatch" -> Stopwatch!Clear(m)
      [] c = "summary"   -> Summary!Clear(m)
      [] c = "remote"    -> Remote!Clear(m)
ClassParse(c, m, w) ==
    CASE c = "counter"   -> Counter!InternalParse(m, w)
      [] c = "stopwatch" -> Stopwatch!InternalParse(m, w)
      [] c = "summary"   -> Summary!InternalParse(m, w)
      [] c = "remote"    -> Remote!InternalParse(m, w)
ClassSerialize(c, m) ==
    CASE c = "counter"   -> Counter!InternalSerialize(m)
      [] c = "stopwatch" -> Stopwatch!InternalSerialize(m)
      [] c = "summary"   -> Summary!InternalSerialize(m)
      [] c = "remote"    -> Remote!InternalSerialize(m)
ClassSize(c, m) ==
    CASE c = "counter"   -> Counter!ByteSizeLong(m)
      [] c = "stopwatch" -> Stopwatch!ByteSizeLong(m)
      [] c = "summary"   -> Summary!ByteSizeLong(m)
      [] c = "remote"    -> Remote!ByteSizeLong(m)
ClassMerge(c, to, from) ==
    CASE c = "counter"   -> Counter!MergeFrom(to, from)
      [] c = "stopwatch" -> Stopwatch!MergeFrom(to, from)
      [] c = "summary"   -> Summary!MergeFrom(to, from)
      [] c = "remote"    -> Remote!MergeFrom(to, from)
ClassCopyFrom(c, to, from) ==
    CASE c = "counter"   -> Counter!CopyFrom(to, from)
      [] c = "stopwatch" -> Stopwatch!CopyFrom(to, from)
      [] c = "summary"   -> Summary!CopyFrom(to, from)
      [] c = "remote"    -> Remote!CopyFrom(to, from)
ClassCopy(c, from) ==
    CASE c = "counter"   -> Counter!Copy(from)
      [] c = "stopwatch" -> Stopwatch!Copy(from)
      [] c = "summary"   -> Summary!Copy(from)
      [] c = "remote"    -> Remote!Copy(from)
ClassSwap(c, x, y) ==
    CASE c = "counter"   -> Counter!InternalSwap(x, y)
      [] c = "stopwatch" -> Stopwatch!InternalSwap(x, y)
      [] c = "summary"   -> Summary!InternalSwap(x, y)
      [] c = "remote"    -> Remote!InternalSwap(x, y)

\* The accessors of a field f; a string can be handed over and taken back.
ClassSet(c, m, f, v) ==
    CASE c = "counter"   -> Counter!set_count(m, v)
      [] c = "stopwatch" -> Stopwatch!set_runtime_ns(m, v)
      [] c = "summary"   -> IF f = "units" THEN Summary!set_units(m, v) ELSE Summary!set(m, f, v)
      [] c = "remote"    -> IF f = "id" THEN Remote!set_id(m, v) ELSE Remote!set(m, f, v)
ClassUnset(c, m, f) ==
    CASE c = "counter"   -> Counter!clear_count(m)
      [] c = "stopwatch" -> Stopwatch!clear_runtime_ns(m)
      [] c = "summary"   -> IF f = "units" THEN Summary!clear_units(m) ELSE Summary!clear(m, f)
      [] c = "remote"    -> IF f = "id" THEN Remote!clear_id(m) ELSE Remote!clear(m, f)
ClassRelease(c, m) ==
    CASE c = "summary" -> Summary!release_units(m)
      [] c = "remote"  -> Remote!release_id(m)
ClassSetAllocated(c, m, v) ==
    CASE c = "summary" -> Summary!set_allocated_units(m, v)
      [] c = "remote"  -> Remote!set_allocated_id(m, v)
=============================================================================
