------------------------------ MODULE Layouts ------------------------------
(***************************************************************************)
(* How the event decoders read a body.  Every decoder of the repository    *)
(* (logs/*.rs, instr/*_inner.rs, instr/*.rs, accounts/*.rs) walks a byte   *)
(* slice with the same few readers; a decoder is written here as the       *)
(* sequence of its reads, in the order of the code.                        *)
(*                                                                         *)
(* A body is abstracted to what the control of a decoder depends on: its   *)
(* length, the length of the strings and vectors inside it, the value of   *)
(* its tag byte, and the offset of the one byte that holds neither 0 nor 1 *)
(* (a body without such a byte has NoByte).  The value of a field is the   *)
(* byte range it is read from, which is what two decoders must agree on.   *)
(***************************************************************************)
EXTENDS Naturals, Sequences, TLC

\* The values of a tag byte (a swap mode, a trade direction, an instruction name).
Tags == 0 .. 4
NoByte == 65535

\* A read: what it does (op), the event field it sets ("" when the value is
\* discarded), its width, the width added per element of a string or a vector,
\* and the largest byte value it accepts.
Item(op, name, w, e, top) == [op |-> op, name |-> name, w |-> w, e |-> e, top |-> top]

Of(w, top, names) == [i \in DOMAIN names |-> Item("read", names[i], w, 0, top)]

Keys(names) == Of(32, 255, names)
U128s(names) == Of(16, 255, names)
U64s(names) == Of(8, 255, names)
U32s(names) == Of(4, 255, names)
U16s(names) == Of(2, 255, names)
U8s(names) == Of(1, 255, names)
\* A byte that must be 0 or 1, and one that must not exceed top.
Flags(names) == Of(1, 1, names)
Byte(name, top) == <<Item("read", name, 1, 0, top)>>
\* A Borsh string, and a vector of elements of width e.
Strs(names) == [i \in DOMAIN names |-> Item("read", names[i], 4, 1, 255)]
Vec(name, e) == <<Item("read", name, 4, e, 255)>>
\* A vector with a limit on its length, and one that an older body lacks.
Few(name, e, top) == <<Item("read", name, 4, e, top)>>
FewIfAny(name, e, top) == <<Item("list", name, 4, e, top)>>
Bytes(name, w) == <<Item("read", name, w, 0, 255)>>
\* A read whose value is discarded, and a jump over bytes that are not read.
Skip(w) == <<Item("read", "", w, 0, 255)>>
Hop(w) == <<Item("hop", "", w, 0, 255)>>

\* A second field set from the w bytes just read.
Also(name, w) == <<Item("also", name, w, 0, 255)>>

\* Guards on the length of the whole body, and on reaching its end.
Min(w) == <<Item("min", "", w, 0, 255)>>
Exact(w) == <<Item("exact", "", w, 0, 255)>>
End == <<Item("end", "", 0, 0, 255)>>
\* The reads so far must have covered exactly w bytes.
Filled(w) == <<Item("filled", "", w, 0, 255)>>
\* The part of the body that is left must have one of these lengths.
Rest(lens) == <<Item("rest", "", lens, 0, 255)>>

With(op, reads) == [i \in DOMAIN reads |-> [reads[i] EXCEPT !.op = op]]
\* Reads through a raw pointer: nothing is checked.
Raw(reads) == With("raw", reads)
\* Reads of a field that is left at its default when the body is too short; the
\* cursor moves on either way (Opt), or only when the field was read (Try).
Opt(reads) == With("opt", reads)
Try(reads) == With("try", reads)
\* A group of fields that an older body lacks: the body may end before the group,
\* not inside it.
Stage(w, reads) == <<Item("stage", "", w, 0, 255)>> \o reads
\* The body may end before this read.
Last(reads) == <<Item("stop", "", 0, 0, 255)>> \o reads

\* A decoder makes an event of a kind; both may depend on the tag byte, the kind
\* only if the field that holds the tag was read (the tag is 0 otherwise).
Decoder(event, reads) ==
    [event |-> [t \in Tags |-> event], reads |-> [t \in Tags |-> reads], tagged |-> ""]
ByTag(Event(_), Reads(_)) ==
    [event |-> [t \in Tags |-> Event(t)], reads |-> [t \in Tags |-> Reads(t)], tagged |-> ""]
ByField(field, Event(_), reads) ==
    [event |-> [t \in Tags |-> Event(t)], reads |-> [t \in Tags |-> reads], tagged |-> field]
\* A decoder that calls another one after a check of its own.
After(guard, decoder) ==
    [decoder EXCEPT !.reads = [t \in Tags |-> guard \o decoder.reads[t]]]
\* A decoder that keeps only the events of one kind that another one makes.
OnlyEvent(event, decoder) == decoder @@ ("only" :> event)
\* A tag for which the decoder gives up.
Refuse == <<Item("refuse", "", 0, 0, 255)>>

\* No decoder: the discriminator is not one of the table.
Unknown == Decoder("", Refuse)

-----------------------------------------------------------------------------
Width(d, it) == it.w + it.e * d.text

\* The byte of a one-byte read, or the length of a vector, is out of the range
\* the read accepts.
TooBig(d, it, at) ==
    \/ it.w = 1 /\ it.e = 0 /\ it.top < 255 /\ d.odd = at
    \/ it.e > 1 /\ d.text > it.top

Stopped(s, status) == [s EXCEPT !.status = status]

Take(d, s, it) ==
    [s EXCEPT !.at = @ + Width(d, it),
              !.got = IF it.name = "" THEN @
                      ELSE (it.name :> [at |-> s.at, len |-> Width(d, it)]) @@ @]

Fits(d, s, it) == s.at + Width(d, it) <= d.len

Step(d, s, it) ==
    CASE s.status # "run" -> s
      [] it.op = "read"  -> IF Fits(d, s, it) /\ ~TooBig(d, it, s.at)
                            THEN Take(d, s, it) ELSE Stopped(s, "none")
      [] it.op = "raw"   -> IF Fits(d, s, it) THEN Take(d, s, it) ELSE Stopped(s, "fault")
      [] it.op = "opt"   -> IF Fits(d, s, it) THEN Take(d, s, it)
                            ELSE [s EXCEPT !.at = @ + Width(d, it)]
      [] it.op = "try"   -> IF Fits(d, s, it) THEN Take(d, s, it) ELSE s
      [] it.op = "list"  -> IF s.at + it.w > d.len THEN s
                            ELSE IF Fits(d, s, it) /\ ~TooBig(d, it, s.at)
                            THEN Take(d, s, it) ELSE Stopped(s, "none")
      [] it.op = "also"  -> [s EXCEPT !.got = (it.name :> [at |-> s.at - it.w, len |-> it.w]) @@ @]
      [] it.op = "hop"   -> [s EXCEPT !.at = @ + it.w]
      [] it.op = "min"   -> IF d.len < it.w THEN Stopped(s, "none") ELSE s
      [] it.op = "exact" -> IF d.len # it.w THEN Stopped(s, "none") ELSE s
      [] it.op = "end"   -> IF d.len # s.at THEN Stopped(s, "none") ELSE s
      [] it.op = "filled" -> IF s.at # it.w THEN Stopped(s, "none") ELSE s
      [] it.op = "rest"  -> IF s.at <= d.len /\ d.len - s.at \in it.w THEN s ELSE Stopped(s, "none")
      [] it.op = "stage" -> IF s.at = d.len THEN Stopped(s, "done")
                            ELSE IF s.at + it.w > d.len THEN Stopped(s, "none") ELSE s
      [] it.op = "stop"  -> IF s.at >= d.len THEN Stopped(s, "done") ELSE s
      [] it.op = "refuse" -> Stopped(s, "none")

RunReads(d, reads) ==
    LET run[i \in 0 .. Len(reads)] ==
            IF i = 0 THEN [at |-> 0, status |-> "run", got |-> <<>>]
            ELSE Step(d, run[i - 1], reads[i])
    IN  run[Len(reads)]

\* The kind of event that the reads, which ended like this, amount to.
KindOf(d, decoder, end) ==
    decoder.event[IF decoder.tagged \in DOMAIN end.got \cup {""} THEN d.tag ELSE 0]

Outcome(decoder, end, kind) ==
    CASE end.status \in {"none", "fault"} -> [status |-> end.status, event |-> "", fields |-> <<>>]
      [] end.status \notin {"none", "fault"} ->
           IF "only" \in DOMAIN decoder /\ kind # decoder.only
           THEN [status |-> "none", event |-> "", fields |-> <<>>]
           ELSE [status |-> "event", event |-> kind, fields |-> end.got]

DecodedTo(d, decoder, end) == Outcome(decoder, end, KindOf(d, decoder, end))

\* What a decoder makes of a body: no event (status "none"), undefined behaviour
\* ("fault"), or an event with the fields it read.
Decode(d, decoder) == DecodedTo(d, decoder, RunReads(d, decoder.reads[d.tag]))
=============================================================================
