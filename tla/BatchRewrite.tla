---------------------------- MODULE BatchRewrite ----------------------------
(***************************************************************************)
(* One HEVC batch of the Gen11 driver turned into a Gen12 batch in the     *)
(* buffers the driver submitted it in (prepare_gen12_probe.cpp, with       *)
(* video_batch_rewrite.cpp and gen12_packet_layout.cpp).  A batch is a     *)
(* sequence of packets and a table of relocations; a relocation names a    *)
(* DWORD by its index in the whole batch, so that every packet that grows, *)
(* shrinks or gets something put before it moves the targets behind it.    *)
(* The preparation rewrites the targets, clones and adds entries within    *)
(* the table, binds scratch memory it creates one resource at a time, and  *)
(* copies the result over the driver's buffers only to execute it.         *)
(***************************************************************************)
EXTENDS Gen12Layout, FiniteSetsExt, TLC

CONSTANTS
    MaxTries,       \* how often the driver submits the same buffers
    Frames          \* what a submission may be like, see Frame

\* Up to `more` entries besides the audited ones and up to `less` of them
\* missing; whether the converter supports the frame; the DWORDs the room
\* exceeds the result by, the entries the table has room for besides its own,
\* and the DWORDs the stated length is short of.
ASSUME FramesAssumption ==
    /\ MaxTries \in Nat \ {0}
    /\ Frames \subseteq [more : Nat, less : Nat, supported : BOOLEAN,
                        spare : Int, entries : Nat, short : Nat]

VARIABLES
    input,      \* what the driver's batch is, and the room it was given
    client,     \* the driver's buffers: batch, relocs, rows
    work,       \* the candidate
    scratch,    \* scratch created and still the preparation's own
    rebound,    \* bindings made so far
    pc,         \* the step of the preparation
    result,     \* what the last preparation returned
    tries       \* number of the present preparation

vars == <<input, client, work, scratch, rebound, pc, result, tries>>

-----------------------------------------------------------------------------
(* Packets.  `gen` is the generation of the encoding, `id` tells packets   *)
(* of one command apart (the surface, the kind of flush), `from` is the    *)
(* place of the packet in the driver's batch, 0 when it was inserted, `at` *)
(* the index of its first DWORD.                                           *)

\* Packets without a structure in the headers, from how the code uses them.
OtherLayout ==
    [MI_FLUSH_DW         |-> <<"header", "address", "upper", "data">>,
     MI_BATCH_BUFFER_END |-> <<"header">>,
     VD_CONTROL_STATE    |-> <<"header", "data", "data">>,
     MI_FORCE_WAKEUP     |-> <<"header", "data">>,
     MFX_WAIT            |-> <<"header">>]

\* The lengths the converter knows each command by, and no other.
Gen11Length ==
    [HCP_PIPE_MODE_SELECT |-> 6,      HCP_SURFACE_STATE |-> 4,
     HCP_PIPE_BUF_ADDR_STATE |-> 121, HCP_PIC_STATE |-> 38,
     HEVC_VP9_RDOQ_STATE |-> 130,     HCP_SLICE_STATE |-> 11,
     VDENC_PIPE_MODE_SELECT |-> 2,    VDENC_PIPE_BUF_ADDR_STATE |-> 62,
     VDENC_CMD1 |-> 30,               VDENC_CMD2 |-> 37,
     VDENC_WEIGHTSOFFSETS_STATE |-> 5, VDENC_WALKER_STATE |-> 10]

Converted == DOMAIN Gen11Length \union {"VD_PIPELINE_FLUSH"}

FieldsOf(p) == IF p.cmd \in DOMAIN OtherLayout THEN OtherLayout[p.cmd] ELSE Layout[p.cmd]

length(p) ==
    IF p.cmd \in DOMAIN Gen11Length /\ p.gen = 11
    THEN Gen11Length[p.cmd] ELSE Len(FieldsOf(p))

\* A list of packets as they lie one behind the other.
LaidOut(packets) ==
    LET end[i \in 0..Len(packets)] == IF i = 0 THEN 0 ELSE end[i - 1] + length(packets[i])
    IN  [i \in DOMAIN packets |-> [packets[i] EXCEPT !.at = end[i - 1]]]

Used(b) == Last(b).at + length(Last(b))

\* The packet and the DWORD in it that a target names.
PacketAt(b, t) == CHOOSE i \in DOMAIN b : b[i].at <= t /\ t < b[i].at + length(b[i])
DwordAt(b, t)  == t - b[PacketAt(b, t)].at
FieldAt(b, t)  == FieldsOf(b[PacketAt(b, t)])[DwordAt(b, t) + 1]

Find(b, cmd, id) == {i \in DOMAIN b : b[i].cmd = cmd /\ b[i].id = id}
Packets(b, cmd)  == {i \in DOMAIN b : b[i].cmd = cmd}

-----------------------------------------------------------------------------
(* Relocations.  `kind` is the access the entry encodes, `handle` the      *)
(* resource it binds, `origin` the driver's entry it stems from.           *)

NoOrigin     == [packet |-> 0, dw |-> 0]
DriverHandle == [slot |-> 0, try |-> 0]
Reloc(t, kind, handle, origin) ==
    [target |-> t, kind |-> kind, handle |-> handle, origin |-> origin, id |-> "same"]

\* Mutant: one entry too many in a list, off by one from its neighbour.
AddressDwordsSlipped ==
    [HCP_SURFACE_STATE |-> {1, 2},
     HCP_PIPE_BUF_ADDR_STATE |->
        {1, 7, 10, 16, 19, 25, 28, 31, 37, 39, 41, 43, 45, 47, 49, 51, 54, 57, 60, 63,
         66, 68, 70, 72, 74, 76, 78, 80, 95, 98, 101},
     VDENC_PIPE_BUF_ADDR_STATE |->
        {1, 4, 10, 13, 14, 16, 19, 22, 25, 28, 34, 37, 40, 43, 46, 49, 52}]

\* The address DWORDs the preparation maps in a packet it replaces.
AddressDwords ==
    [HCP_SURFACE_STATE |-> {1, 2},
     HCP_PIPE_BUF_ADDR_STATE |->
        {1, 7, 10, 16, 19, 25, 28, 31, 37, 39, 41, 43, 45, 47, 49, 51, 54, 57, 60, 63,
         66, 68, 70, 72, 74, 76, 78, 80, 95, 98, 101},
     VDENC_PIPE_BUF_ADDR_STATE |->
        {1, 4, 10, 13, 16, 19, 22, 25, 28, 34, 37, 40, 43, 46, 49, 52}]

Mapped(p, dw) ==
    \/ p.cmd \notin Converted
    \/ p.cmd \in DOMAIN AddressDwords /\ dw \in AddressDwords[p.cmd]

\* Row stores that Gen12 keeps on chip, and the scratch of the others.
RowDwords     == <<4, 13, 22>>
ScratchDwords == <<7, 10, 16, 19, 25, 28>>
IsRow(b, t) ==
    /\ b[PacketAt(b, t)].cmd = "HCP_PIPE_BUF_ADDR_STATE"
    /\ DwordAt(b, t) \in Range(RowDwords)

RequiredScratch == IF input.wide THEN 11 ELSE 8

\* Mutant: the entries to come are not counted.
RoomForNow(relocs, k) == 5 * Cardinality(relocs) < input.words

\* Room for k more entries: five words each, and a zero word behind them.
Room(relocs, k) == 5 * (Cardinality(relocs) + k) < input.words

-----------------------------------------------------------------------------
(* The batches the driver builds, and departures from them.                *)

DriverBatch(inter) ==
    LET P(cmd, gen, id) == [cmd |-> cmd, gen |-> gen, id |-> id, from |-> 0, at |-> 0]
        b == <<P("MI_FLUSH_DW", 12, 0),           P("HCP_PIPE_MODE_SELECT", 11, 0),
               P("HCP_SURFACE_STATE", 11, 0),     P("HCP_SURFACE_STATE", 11, 1),
               P("HCP_PIPE_BUF_ADDR_STATE", 11, 0), P("HCP_IND_OBJ_BASE_ADDR_STATE", 12, 0),
               P("VDENC_PIPE_MODE_SELECT", 11, 0), P("VDENC_SRC_SURFACE_STATE", 12, 0),
               P("VDENC_REF_SURFACE_STATE", 12, 0), P("VDENC_DS_REF_SURFACE_STATE", 12, 0),
               P("VDENC_PIPE_BUF_ADDR_STATE", 11, 0), P("VDENC_CMD1", 11, 0),
               P("HCP_PIC_STATE", 11, 0),         P("VDENC_CMD2", 11, 0),
               P("HEVC_VP9_RDOQ_STATE", 11, 0)>>
             \o (IF inter THEN <<P("HCP_REF_IDX_STATE", 12, 0)>> ELSE <<>>)
             \o <<P("HCP_SLICE_STATE", 11, 0),    P("VDENC_WEIGHTSOFFSETS_STATE", 11, 0),
                  P("VDENC_WALKER_STATE", 11, 0), P("VD_PIPELINE_FLUSH", 12, 1),
                  P("VD_PIPELINE_FLUSH", 12, 2),  P("MI_FLUSH_DW", 12, 0),
                  P("MI_BATCH_BUFFER_END", 12, 0)>>
    IN  LaidOut([i \in DOMAIN b |-> [b[i] EXCEPT !.from = i]])

\* The access the driver encodes for a field; nothing else is patched.
NaturalKind(field) ==
    CASE field = "address" -> "address"
      [] field \in {"pitch", "u_offset", "v_offset"} -> "offset"
      [] OTHER -> "none"

\* The audited entries: every buffer address that the preparation maps, the
\* row stores of a driver that keeps them in memory, and one field or two of
\* each packet whose entries are cloned or only carried along.  They are 56, or
\* 59 with the rows.
DriverDwords(p, rows) ==
    CASE p.cmd = "HCP_SURFACE_STATE" -> IF p.id = 0 THEN AddressDwords[p.cmd] ELSE {}
      [] p.cmd = "HCP_PIPE_BUF_ADDR_STATE" ->
            AddressDwords[p.cmd] \union (IF rows THEN Range(RowDwords) ELSE {})
      [] p.cmd = "HCP_IND_OBJ_BASE_ADDR_STATE" -> {1}
      [] p.cmd = "VDENC_SRC_SURFACE_STATE"    -> {4}
      [] p.cmd = "VDENC_REF_SURFACE_STATE"    -> {4}
      [] p.cmd = "VDENC_DS_REF_SURFACE_STATE" -> {4, 8}
      [] p.cmd = "VDENC_PIPE_BUF_ADDR_STATE"  -> AddressDwords[p.cmd]
      [] p.cmd = "MI_FLUSH_DW" -> {1}
      [] OTHER -> {}

DriverReloc(b, i, dw, kind) ==
    Reloc(b[i].at + dw, kind, DriverHandle, [packet |-> i, dw |-> dw])

DriverRelocs(b, rows) ==
    UNION {{DriverReloc(b, i, dw, NaturalKind(FieldsOf(b[i])[dw + 1])) :
                dw \in DriverDwords(b[i], rows)} : i \in DOMAIN b}

\* One entry more: on a DWORD of a replaced packet, with either access, or on
\* a field of a packet that is kept.
Extra(b) ==
    (UNION {{DriverReloc(b, i, dw, kind) : kind \in {"address", "offset"},
                dw \in IF b[i].cmd \in DOMAIN AddressDwords THEN 1..(length(b[i]) - 1) ELSE {1}} :
           i \in {j \in DOMAIN b : b[j].cmd \in Converted}})
    \union
    (UNION {{DriverReloc(b, i, dw, NaturalKind(FieldsOf(b[i])[dw + 1])) :
                dw \in {d \in 1..(length(b[i]) - 1) : NaturalKind(FieldsOf(b[i])[d + 1]) # "none"}} :
           i \in {j \in DOMAIN b : b[j].cmd \notin Converted}})

\* An extra entry binds another resource than the one it doubles.
Tagged(r) == [r EXCEPT !.handle.try = -1]

\* The relocation tables the driver may hand over.
Tables(b, rows, f) ==
    LET audited == DriverRelocs(b, rows)
        extra   == {Tagged(r) : r \in Extra(b)}
    IN  {(audited \ Range(fewer)) \union Range(more) :
            fewer \in [1..f.less -> audited], more \in [1..f.more -> extra]}

-----------------------------------------------------------------------------
(* The rewriting.                                                          *)

Inserted(cmd, id) == [cmd |-> cmd, gen |-> 12, id |-> id, from |-> 0, at |-> 0]

\* What is put before a replaced packet.  Surface 5 is the reference pictures'.
Before(p) ==
    CASE p.cmd = "HCP_PIPE_MODE_SELECT" ->
            <<Inserted("MI_FORCE_WAKEUP", 0), Inserted("VDENC_CONTROL_STATE", 0),
              Inserted("VD_CONTROL_STATE", 0), Inserted("MFX_WAIT", 0)>>
      [] p.cmd = "VD_PIPELINE_FLUSH" /\ p.id = 1 -> <<Inserted("VD_CONTROL_STATE", 1)>>
      [] p.cmd = "HCP_PIPE_BUF_ADDR_STATE" -> <<Inserted("HCP_SURFACE_STATE", 5)>>
      [] OTHER -> <<>>

convert(p) == [p EXCEPT !.gen = 12]

Rebuilt(b) == LaidOut(FlattenSeq([i \in DOMAIN b |-> Before(b[i]) \o <<convert(b[i])>>]))

\* The packet that the i-th packet of the old batch became.
Became(b, i) == CHOOSE j \in DOMAIN b : b[j].from = i

\* The new index of an old target: the same DWORD of what its packet became.
NewTarget(b, new, t) == new[Became(new, PacketAt(b, t))].at + DwordAt(b, t)

\* rewrite_video_batch with the replacements, in the room of the old batch.
Rewritable(b, relocs) ==
    /\ Used(Rebuilt(b)) <= input.capacity
    /\ \A r \in relocs : Mapped(b[PacketAt(b, r.target)], DwordAt(b, r.target))

rewrite_video_batch(b, relocs) ==
    LET new == Rebuilt(b)
    IN  {[r EXCEPT !.target = NewTarget(b, new, r.target)] : r \in relocs}

\* Entries whose target is the row offset of U of a reference reader.
UvTargets(b) ==
    {b[i].at + 4 : i \in Packets(b, "VDENC_REF_SURFACE_STATE")}
    \union {b[i].at + d : i \in Packets(b, "VDENC_DS_REF_SURFACE_STATE"), d \in {4, 8}}

\* Mutant: the clones for V stay on U.
ClonesOnU(b, relocs) ==
    LET rec == b[Max(Find(b, "HCP_SURFACE_STATE", 0))].at
        ref == b[Max(Find(b, "HCP_SURFACE_STATE", 5))].at
    IN  {[r EXCEPT !.id = "v"] : r \in {q \in relocs : q.target \in UvTargets(b)}}
        \union {[r EXCEPT !.target = ref + (@ - rec)] :
                    r \in {q \in relocs : q.target \in {rec + 1, rec + 2}}}

\* A clone of each for V, and one of each entry of the reconstructed surface
\* for the reference surface, whose pitch entry carries its surface number.
Clones(b, relocs) ==
    LET rec == b[Max(Find(b, "HCP_SURFACE_STATE", 0))].at
        ref == b[Max(Find(b, "HCP_SURFACE_STATE", 5))].at
    IN  {[r EXCEPT !.target = @ + 1] : r \in {q \in relocs : q.target \in UvTargets(b)}}
        \union {[r EXCEPT !.target = ref + (@ - rec),
                          !.id = IF r.target = rec + 1 THEN "reference" ELSE "same"] :
                    r \in {q \in relocs : q.target \in {rec + 1, rec + 2}}}

-----------------------------------------------------------------------------
(* The preparation.                                                        *)

NoWork == [batch |-> <<>>, relocs |-> {}, rows |-> "driver"]

\* How wide the frame is, what it may use, the room for the commands and for
\* the entries, and the length the driver states.
Frame(b, relocs, wide, f) ==
    [wide |-> wide, supported |-> f.supported, relocs |-> relocs,
     used |-> Used(b) - f.short, capacity |-> Used(Rebuilt(b)) + f.spare,
     words |-> 5 * (Cardinality(relocs) + f.entries) + 1]

Init ==
    /\ \E inter, wide, rows \in BOOLEAN, f \in Frames :
        LET b == DriverBatch(inter) IN
        \E t \in Tables(b, rows, f) :
            /\ client = [batch |-> b, relocs |-> t, rows |-> "driver"]
            /\ input = Frame(b, t, wide, f)
    /\ work = NoWork
    /\ scratch = {}
    /\ rebound = 0
    /\ pc = "check"
    /\ result = "none"
    /\ tries = 1

\* Every early return: nothing is created yet, the driver's buffers are as they were.
Reject ==
    /\ pc' = "returned"
    /\ result' = "rejected"
    /\ UNCHANGED <<input, client, work, scratch, rebound, tries>>

Continue(next) ==
    /\ pc' = next
    /\ UNCHANGED <<input, client, scratch, rebound, result, tries>>

\* The structure of the batch, as far as it can be wrong in a batch of the
\* driver or in a candidate submitted again: its stated length ends at the
\* terminator and it holds no MI command but the ones the driver uses.
WellFormed(b) ==
    /\ b[Len(b)].cmd = "MI_BATCH_BUFFER_END"
    /\ input.used = Used(b)
    /\ Packets(b, "MI_FORCE_WAKEUP") = {}

Check ==
    /\ pc = "check"
    /\ IF WellFormed(client.batch)
       THEN /\ work' = client
            /\ Continue("convert")
       ELSE Reject

\* Every packet of the list is converted, or the frame is rejected, and then
\* the bindings of the row stores are dropped.
Convert ==
    /\ pc = "convert"
    /\ LET b    == work.batch
           rows == {r \in work.relocs : IsRow(b, r.target)}
       IN  IF /\ input.supported
              /\ \A p \in Range(b) : p.cmd \in DOMAIN Gen11Length => p.gen = 11
              /\ \A r \in rows : r.kind = "address"
           THEN /\ work' = [work EXCEPT !.relocs = @ \ rows, !.rows = "chip"]
                /\ Continue("rewrite")
           ELSE Reject

Rewrite ==
    /\ pc = "rewrite"
    /\ IF Rewritable(work.batch, work.relocs)
       THEN /\ work' = [work EXCEPT !.batch = Rebuilt(@),
                                    !.relocs = rewrite_video_batch(work.batch, @)]
            /\ Continue("clone")
       ELSE Reject

Clone ==
    /\ pc = "clone"
    /\ LET added == Clones(work.batch, work.relocs)
       IN  IF /\ \A r \in work.relocs :
                    r.target \in UvTargets(work.batch) => r.kind = "offset"
              /\ Room(work.relocs, Cardinality(added))
              /\ Cardinality(added) = 5
           THEN /\ work' = [work EXCEPT !.relocs = @ \union added]
                /\ Continue("create")
           ELSE Reject

\* One resource after the other; the first that fails ends the creation, and
\* every binding is then left out.
Create ==
    /\ pc = "create"
    /\ Cardinality(scratch) < RequiredScratch
    /\ \/ /\ scratch' = scratch \union {[slot |-> Cardinality(scratch) + 1, try |-> tries]}
          /\ pc' = "create"
       \/ /\ pc' = "finish"
          /\ UNCHANGED scratch
    /\ UNCHANGED <<input, client, work, rebound, result, tries>>

Created ==
    /\ pc = "create"
    /\ Cardinality(scratch) = RequiredScratch
    /\ UNCHANGED work
    /\ Continue("rebind")

Slot(k) == [slot |-> k, try |-> tries]
Pipe(b, cmd) == b[Max(Packets(b, cmd))].at

\* The six scratch buffers of the codec engine that the driver binds too.
Rebind ==
    /\ pc = "rebind"
    /\ LET pipe == Pipe(work.batch, "HCP_PIPE_BUF_ADDR_STATE")
           hit(r, k) == r.target = pipe + ScratchDwords[k] /\ r.kind = "address"
       IN  /\ work' = [work EXCEPT !.relocs =
                {IF \E k \in 1..6 : hit(r, k)
                 THEN [r EXCEPT !.handle = Slot(CHOOSE k \in 1..6 : hit(r, k))] ELSE r : r \in @}]
           /\ rebound' = rebound
                + Cardinality({r \in work.relocs : \E k \in 1..6 : hit(r, k)})
    /\ pc' = "bind"
    /\ UNCHANGED <<input, client, scratch, result, tries>>

Bound(t, k) == Reloc(t, "address", Slot(k), NoOrigin)

\* The two buffers of the encoding engine that only Gen12 has.
Bind ==
    /\ pc = "bind"
    /\ LET vdenc == Pipe(work.batch, "VDENC_PIPE_BUF_ADDR_STATE")
       IN  IF rebound = 6 /\ Room(work.relocs, 2)
           THEN /\ work' = [work EXCEPT !.relocs = @ \union {Bound(vdenc + 62, 7), Bound(vdenc + 65, 8)}]
                /\ rebound' = rebound + 2
           ELSE UNCHANGED <<work, rebound>>
    /\ pc' = "rows"
    /\ UNCHANGED <<input, client, scratch, result, tries>>

\* A return after the creation has begun destroys what was created.
Abandon == scratch' = {} /\ pc' = "returned" /\ result' = "rejected"

\* A frame too wide for the row stores on chip gets them back in memory.
BindRows ==
    /\ pc = "rows"
    /\ LET pipe == Pipe(work.batch, "HCP_PIPE_BUF_ADDR_STATE")
       IN  IF input.wide /\ rebound = 8
           THEN IF Room(work.relocs, 3)
                THEN /\ work' = [work EXCEPT !.rows = "memory",
                            !.relocs = @ \union {Bound(pipe + RowDwords[k], 8 + k) : k \in 1..3}]
                     /\ rebound' = rebound + 3
                     /\ pc' = "finish"
                     /\ UNCHANGED <<scratch, result>>
                ELSE /\ Abandon
                     /\ UNCHANGED <<work, rebound>>
           ELSE /\ pc' = "finish"
                /\ UNCHANGED <<work, rebound, scratch, result>>
    /\ UNCHANGED <<input, client, tries>>

\* Mutant: only the creation is counted.
AllCreated == Cardinality(scratch) = RequiredScratch

AllBound == Cardinality(scratch) = RequiredScratch /\ rebound = RequiredScratch

\* Only a candidate with every binding is copied over the driver's buffers.
Finish ==
    /\ pc = "finish"
    /\ IF AllBound
       THEN /\ client' = work
            /\ input' = [input EXCEPT !.used = Used(work.batch)]
            /\ pc' = "execute"
            /\ UNCHANGED <<scratch, result>>
       ELSE /\ Abandon
            /\ UNCHANGED <<client, input>>
    /\ UNCHANGED <<work, rebound, tries>>

\* The recovery owner refuses the batch and leaves the scratch here, or takes
\* the scratch, whatever then becomes of the batch; the rest is destroyed.
Execute ==
    /\ pc = "execute"
    /\ result' \in {"refused", "failed", "completed"}
    /\ scratch' = {}
    /\ pc' = "returned"
    /\ UNCHANGED <<input, client, work, rebound, tries>>

\* The driver was told of a failure and submits its buffers once more, as the
\* preparation left them.
Resubmit ==
    /\ pc = "returned"
    /\ result \notin {"failed", "completed"}
    /\ tries < MaxTries
    /\ tries' = tries + 1
    /\ work' = NoWork
    /\ rebound' = 0
    /\ pc' = "check"
    /\ result' = "none"
    /\ UNCHANGED <<input, client, scratch>>

Next ==
    \/ Check \/ Convert \/ Rewrite \/ Clone
    \/ Create \/ Created \/ Rebind \/ Bind \/ BindRows
    \/ Finish \/ Execute \/ Resubmit

Spec == Init /\ [][Next]_vars

-----------------------------------------------------------------------------
(* Properties.                                                             *)

\* The fields an entry may patch, and that its access is the field's.
OnField(b, r) == r.kind = NaturalKind(FieldAt(b, r.target))

\* Every entry of a batch that is executed patches a field of the Gen12 layout
\* that takes such an entry, however the packets before it grew and shrank:
\* the hand-written lists of address DWORDs (prepare_gen12_probe.cpp:87-89)
\* agree with the structs of the headers.  Entries the driver itself put on a
\* field of another kind are its own.
RelocsOnFields ==
    pc = "execute" =>
        \A r \in client.relocs :
            \/ OnField(client.batch, r)
            \/ /\ r.handle.try = -1
               /\ NaturalKind(FieldAt(client.batch, r.target)) # "none"

ReferenceReaders == {"VDENC_REF_SURFACE_STATE", "VDENC_DS_REF_SURFACE_STATE"}

\* No binding is lost or moved to another packet: every entry of the driver but
\* those of the row stores is in the executed batch at the same DWORD of the
\* same packet; each row offset of U of a reference reader has its twin for V, and the entries of the
\* reconstructed surface have theirs in the reference surface.
BindingsKept ==
    pc = "execute" =>
        LET b  == client.batch
            At(t, o) == \E r \in client.relocs : r.target = t /\ r.kind = o.kind /\ r.origin = o.origin
            ref == b[Max(Find(b, "HCP_SURFACE_STATE", 5))].at
        IN  \A o \in input.relocs :
                LET j == Became(b, o.origin.packet)
                    t == b[j].at + o.origin.dw
                IN  \/ IsRow(b, t)
                    \/ /\ At(t, o)
                       /\ b[j].cmd \in ReferenceReaders /\ FieldAt(b, t) = "u_offset" => At(t + 1, o)
                       /\ b[j].cmd = "HCP_SURFACE_STATE" /\ b[j].id = 0 => At(ref + o.origin.dw, o)

\* The driver's entries for the k-th scratch buffer of the codec engine, whose
\* packet is the fifth.
Scratchy(r, k) == r.origin = [packet |-> 5, dw |-> ScratchDwords[k]] /\ r.kind = "address"
ForScratch(t) == {r \in t : \E k \in 1..6 : Scratchy(r, k)}

\* What ScratchBound is restricted to.  The preparation counts the bindings it
\* makes and never looks which ones they are (prepare_gen12_probe.cpp:181, 190,
\* 206, 226).  Six of them must be one of each: an entry too many on one of the
\* DWORDs stands for one that is missing on another.  And eight or eleven pass
\* for six with those that only Gen12 has.
CountTells(t) ==
    /\ Cardinality(ForScratch(t)) \notin {8, 11}
    /\ Cardinality(ForScratch(t)) = 6 => \A k \in 1..6 : \E r \in t : Scratchy(r, k)

\* The DWORD of each scratch buffer, in the order the preparation sizes them.
ScratchPlace(b, k) ==
    IF k <= 6 THEN Pipe(b, "HCP_PIPE_BUF_ADDR_STATE") + ScratchDwords[k]
    ELSE IF k <= 8 THEN Pipe(b, "VDENC_PIPE_BUF_ADDR_STATE") + <<62, 65>>[k - 6]
    ELSE Pipe(b, "HCP_PIPE_BUF_ADDR_STATE") + RowDwords[k - 8]

\* An executed batch uses all of the scratch made for it and no other: each
\* buffer is bound once, at its own place, and is still the preparation's; the
\* row stores are on chip exactly when nothing binds them.  This is said only of
\* the tables in which the count of the scratch bindings tells what they are,
\* see CountTells; of the others the code does not see to it.  And whatever way
\* a preparation ends, for any table, it owns no scratch afterwards
\* (gen12_scratch.c:38-43).
ScratchBound ==
    /\ pc \in {"returned", "check"} => scratch = {}
    /\ pc = "execute" /\ CountTells(input.relocs) =>
        LET b == client.batch
            scratched == {r \in client.relocs : r.handle.slot > 0}
        IN  /\ \A r \in scratched : r.handle \in scratch
            /\ \A h \in scratch :
                    {r.target : r \in {q \in scratched : q.handle = h}} = {ScratchPlace(b, h.slot)}
            /\ \A k \in 1..RequiredScratch :
                    Cardinality({r \in client.relocs :
                                    r.target = ScratchPlace(b, k) /\ r.kind = "address"}) = 1
            /\ client.rows = (IF \E r \in client.relocs : IsRow(b, r.target) THEN "memory" ELSE "chip")

\* What is executed fits in the driver's buffers: the commands in the old
\* allocation and ending with the terminator at the stated length, the entries
\* with a zero word behind the last.
BatchFits ==
    pc = "execute" =>
        /\ Used(client.batch) = input.used /\ input.used <= input.capacity
        /\ Last(client.batch).cmd = "MI_BATCH_BUFFER_END"
        /\ Room(client.relocs, 0)
=============================================================================
