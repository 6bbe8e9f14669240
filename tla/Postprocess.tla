---------------------------- MODULE Postprocess ----------------------------
(***************************************************************************)
(* postprocess_span_collection of                                          *)
(* fastrace/src/collector/global_collector.rs: the span sets collected for *)
(* a trace become the records given to the reporter, and events and        *)
(* properties are mounted on the record of the span they were added to.    *)
(*                                                                         *)
(* A raw span is [id, parent, kind]; kind "Attachment" stands for both     *)
(* RawKind::Event and RawKind::Properties, which are treated alike.  Names *)
(* and times are left out.  A span collection is [set, trace, parent]: a   *)
(* sequence of raw spans (one for SpanSet::Span) and the token item it was *)
(* submitted with.  danglings maps a span to the attachments waiting for   *)
(* its record.                                                             *)
(***************************************************************************)
EXTENDS Naturals, Sequences, SequencesExt

NoParent == 0   \* SpanId::default()

NoDanglings == [s \in {} |-> <<>>]

\* The elements of seq that pass the test, in their order.  It is a function of
\* the sequence for TLC to evaluate that only once.
Select(seq, Test(_)) ==
  LET passing[s \in {seq}] ==
        FlattenSeq([i \in DOMAIN s |-> IF Test(s[i]) THEN <<s[i]>> ELSE <<>>])
  IN  passing[seq]

Raw(id, parent, kind) == [id |-> id, parent |-> parent, kind |-> kind]

\* The raw spans of one collection, each with the parent it is amended to:
\* the parent of the token item for the set's own roots.
Amend(coll) ==
  [i \in DOMAIN coll.set |->
     LET raw == coll.set[i] IN
     [trace  |-> coll.trace,
      id     |-> raw.id,
      kind   |-> raw.kind,
      parent |-> IF raw.parent = NoParent THEN coll.parent ELSE raw.parent]]

AmendAll(colls) == FlattenSeq([i \in DOMAIN colls |-> Amend(colls[i])])

IsSpan(a)       == a.kind = "Span"
IsAttachment(a) == a.kind = "Attachment"

\* danglings.entry(parent_id).or_default().push(...), in order.
Dangle(danglings, amended) ==
  LET att == Select(amended, IsAttachment)
      new(p) == LET mine == Select(att, LAMBDA a : a.parent = p)
                IN  [i \in DOMAIN mine |-> mine[i].id]
  IN  [p \in DOMAIN danglings \cup {att[i].parent : i \in DOMAIN att} |->
         (IF p \in DOMAIN danglings THEN danglings[p] ELSE <<>>) \o new(p)]

\* mount_danglings: the first record of a span takes all that dangles for it.
Mount(amended, danglings) ==
  LET spans == Select(amended, IsSpan)
      takes(i) == /\ spans[i].id \in DOMAIN danglings
                  /\ \A j \in 1 .. i - 1 : spans[j].id # spans[i].id
  IN  [i \in DOMAIN spans |->
         [trace  |-> spans[i].trace,
          span   |-> spans[i].id,
          parent |-> spans[i].parent,
          events |-> IF takes(i) THEN danglings[spans[i].id] ELSE <<>>]]

Unmounted(records, danglings) ==
  LET left == DOMAIN danglings \ {records[i].span : i \in DOMAIN records}
  IN  [s \in left |-> danglings[s]]

\* The records of a run over colls, and what is left dangling after it.
PostprocessSpanCollection(colls, danglings) ==
  LET amended == AmendAll(colls)
      dangling == Dangle(danglings, amended)
      records  == Mount(amended, dangling)
  IN  [records |-> records, danglings |-> Unmounted(records, dangling)]
=============================================================================
