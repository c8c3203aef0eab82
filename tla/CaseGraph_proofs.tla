-------------------------- MODULE CaseGraph_proofs --------------------------
(***************************************************************************)
(* Proofs about CaseGraph, for any set of forms and any bounds on runs and *)
(* bad outputs: its types; that the checkpoint is a ledger of the work that*)
(* has been paid for; and each of its invariants, from what the channels   *)
(* of the notebook owe each other (NotebookInv), from the order of the     *)
(* nodes (OrderInv) and from when rows are made (AgreeInv); and that a run *)
(* of the graph ends by itself (StepsLeft is a variant).                   *)
(***************************************************************************)
EXTENDS CaseGraph, FiniteSetTheorems, TLAPS

USE FormsAssumption, RunsAssumption, SoftAssumption

-----------------------------------------------------------------------------
(* The tables of the graph *)

LEMMA EdgesType == \A n \in Nodes : Edges[n] \subseteq Nodes
  BY DEF Nodes, Edges

LEMMA StartType == \A m \in MasterNodes : Start(m) \subseteq Nodes
  BY DEF Start, Flows, FlowStart, Nodes, Edges, MasterNodes

LEMMA AfterType == \A m \in Flows : After[m] \in MasterNodes
  BY DEF After, Flows, FlowStart, MasterNodes

LEMMA NextNodesType ==
    ASSUME frontier \subseteq Nodes
    PROVE  NextNodes \subseteq Nodes
  <1>1. "data_generator" \in Nodes
    BY DEF Nodes, Edges
  <1>2. ASSUME NEW n \in frontier PROVE Successors(n) \subseteq Nodes
    BY <1>1, <1>2, EdgesType DEF Successors
  <1> QED
    BY <1>2 DEF NextNodes

LEMMA RequiredType == \A n \in DOMAIN RequiredOutput : RequiredOutput[n] \in Channels
  BY DEF RequiredOutput, Channels

-----------------------------------------------------------------------------
(* What one node does, in the terms of the invariants *)

\* The run a durable output counts as made in.
MadeIn(v) == IF is_resumable_state_value(v) THEN v.run ELSE 0

\* A step of a node: it leaves the checkpoint alone, keeps the types, and
\* gives an output that is kept a run of its own only when its own copy of
\* the state has none.
NodeStep ==
    /\ phase = "running"
    /\ UNCHANGED <<form, run, phase, at, st, sub, frontier, out>>
    /\ todo' \subseteq todo
    /\ next' \in [Channels -> Values]
    /\ \A c \in Kept :
         \/ MadeIn(next'[c]) = MadeIn(next[c])
         \/ ~Usable(c) /\ MadeIn(next'[c]) \in {0, run}
    /\ retry' \in 0 .. MAX_RETRIES
    /\ softs' \in 0 .. MaxSoft

LEMMA RunsStep ==
    ASSUME NEW n, Runs(n)
    PROVE  /\ phase = "running"
           /\ UNCHANGED <<form, run, phase, at, st, sub, frontier, out>>
           /\ todo' \subseteq todo
  BY DEF Runs

LEMMA KeptChannels == Kept \subseteq Channels
  BY RequiredType DEF Kept

LEMMA ValueType ==
    ASSUME TypeOK, NEW kind \in Kinds, NEW design \in 0 .. MaxRuns
    PROVE  /\ Value(kind, design) \in Values
           /\ MadeIn(Value(kind, design)) \in {0, run}
  <1>1. run \in 0 .. MaxRuns
    BY DEF TypeOK
  <1> QED
    BY <1>1 DEF Value, Values, MadeIn, is_resumable_state_value

LEMMA OfType ==
    ASSUME TypeOK, NEW c \in Channels
    PROVE  /\ sub[c].of \in 0 .. MaxRuns /\ sub[c].kind \in Kinds
           /\ sub[c].run \in 0 .. MaxRuns /\ sub[c] \in Values
           /\ next[c] \in Values /\ st[c] \in Values
  <1>1. sub[c] \in Values /\ next[c] \in Values /\ st[c] \in Values
    BY DEF TypeOK
  <1> QED
    BY <1>1 DEF Values

\* Nothing written.
LEMMA NothingStep ==
    ASSUME TypeOK, NEW n, Runs(n), UNCHANGED next,
           retry' \in 0 .. MAX_RETRIES, softs' \in 0 .. MaxSoft
    PROVE  NodeStep
  <1>1. /\ phase = "running"
        /\ UNCHANGED <<form, run, phase, at, st, sub, frontier, out>>
        /\ todo' \subseteq todo
    BY RunsStep
  <1>2. next' \in [Channels -> Values]
    BY DEF TypeOK
  <1>3. \A c \in Kept : MadeIn(next'[c]) = MadeIn(next[c])
    OBVIOUS
  <1> QED
    BY <1>1, <1>2, <1>3, Zenon DEF NodeStep

\* One channel written, which is not kept or for which there is no output.
LEMMA WriteStep ==
    ASSUME TypeOK, NEW n, Runs(n), NEW c \in Channels,
           NEW kind \in Kinds, NEW design \in 0 .. MaxRuns,
           next' = [next EXCEPT ![c] = Value(kind, design)],
           c \in Kept => ~Usable(c),
           retry' \in 0 .. MAX_RETRIES, softs' \in 0 .. MaxSoft
    PROVE  NodeStep
  <1>1. next \in [Channels -> Values]
    BY DEF TypeOK
  <1>2. next' \in [Channels -> Values]
    BY <1>1, ValueType
  <1>3. next'[c] = Value(kind, design)
    BY <1>1
  <1>4. ASSUME NEW d \in Kept
        PROVE  \/ MadeIn(next'[d]) = MadeIn(next[d])
               \/ ~Usable(d) /\ MadeIn(next'[d]) \in {0, run}
    <2>1. CASE d = c
      <3>1. ~Usable(d)
        BY <1>4, <2>1
      <3>2. MadeIn(next'[d]) \in {0, run}
        BY <1>3, <2>1, ValueType
      <3> QED
        BY <3>1, <3>2
    <2>2. CASE d # c
      <3>1. next'[d] = next[d]
        BY <1>1, <1>4, <2>2, KeptChannels
      <3> QED
        BY <3>1
    <2> QED
      BY <2>1, <2>2
  <1>5. /\ phase = "running"
        /\ UNCHANGED <<form, run, phase, at, st, sub, frontier, out>>
        /\ todo' \subseteq todo
    BY RunsStep
  <1> QED
    BY <1>2, <1>4, <1>5, Zenon DEF NodeStep

LEMMA YieldsStep ==
    ASSUME TypeOK, NEW n, Runs(n), NEW c \in Channels,
           NEW bad \in SUBSET Kinds, NEW design \in 0 .. MaxRuns,
           Yields(c, bad, design), c \in Kept => ~Usable(c)
    PROVE  NodeStep
  <1>1. PICK kind \in {"good"} \cup bad :
           /\ next' = [next EXCEPT ![c] = Value(kind, design)]
           /\ softs' = IF kind \in bad THEN softs + 1 ELSE softs
           /\ softs' <= MaxSoft
           /\ UNCHANGED retry
    BY DEF Yields
  <1>2. kind \in Kinds
    BY DEF Kinds
  <1>3. softs' \in 0 .. MaxSoft /\ retry' \in 0 .. MAX_RETRIES
    BY <1>1 DEF TypeOK
  <1> QED
    BY <1>1, <1>2, <1>3, WriteStep

LEMMA WritesStep ==
    ASSUME TypeOK, NEW n, Runs(n), NEW c \in Channels,
           NEW kind \in Kinds, NEW design \in 0 .. MaxRuns,
           Writes(c, kind, design), c \in Kept => ~Usable(c)
    PROVE  NodeStep
  <1>1. softs' \in 0 .. MaxSoft /\ retry' \in 0 .. MAX_RETRIES
    BY DEF Writes, TypeOK
  <1> QED
    BY <1>1, WriteStep DEF Writes

LEMMA WritesNothingStep ==
    ASSUME TypeOK, NEW n, Runs(n), WritesNothing
    PROVE  NodeStep
  BY NothingStep DEF WritesNothing, TypeOK

\* The generators that only write their one output.
LEMMA GeneratesStep ==
    ASSUME TypeOK, NEW n \in DOMAIN RequiredOutput, NEW bad \in SUBSET Kinds,
           Generates(n, bad)
    PROVE  NodeStep
  <1>1. Runs(n)
    BY DEF Generates, Wrapped
  <1>2. CASE checkpoint_has_node_output(n)
    BY <1>1, <1>2, WritesNothingStep DEF Generates, Wrapped
  <1>3. CASE ~checkpoint_has_node_output(n)
    <2>1. ~Usable(RequiredOutput[n])
      BY <1>3 DEF checkpoint_has_node_output
    <2>2. Yields(RequiredOutput[n], bad, 0)
      BY <1>3 DEF Generates, Wrapped
    <2>3. 0 \in 0 .. MaxRuns
      OBVIOUS
    <2> QED
      BY <1>1, <2>1, <2>2, <2>3, RequiredType, YieldsStep
  <1> QED
    BY <1>2, <1>3

LEMMA BarrierStep ==
    ASSUME TypeOK, NEW n, Barrier(n)
    PROVE  NodeStep
  BY WritesNothingStep DEF Barrier

-----------------------------------------------------------------------------
(* Every node is such a step *)

LEMMA GeneratorNodes ==
    ASSUME TypeOK,
           \/ case_architect \/ case_writer \/ case_questions
           \/ eda_questions_generator
           \/ m3_content_generator \/ m3_questions_generator
           \/ m4_content_generator \/ m4_questions_generator
           \/ m4_chart_generator
           \/ m5_content_generator \/ m5_questions_generator
           \/ teaching_note_part1 \/ teaching_note_part2
    PROVE  NodeStep
  <1>1. {"empty"} \in SUBSET Kinds /\ {"sentinel"} \in SUBSET Kinds
    BY DEF Kinds
  <1>2. {"case_architect", "case_writer", "case_questions",
         "eda_questions_generator", "m3_content_generator",
         "m3_questions_generator", "m4_content_generator",
         "m4_questions_generator", "m4_chart_generator",
         "m5_content_generator", "m5_questions_generator",
         "teaching_note_part1", "teaching_note_part2"}
           \subseteq DOMAIN RequiredOutput
    BY DEF RequiredOutput
  <1> QED
    BY <1>1, <1>2, GeneratesStep
       DEF case_architect, case_writer, case_questions,
           eda_questions_generator, m3_content_generator,
           m3_questions_generator, m4_content_generator,
           m4_questions_generator, m4_chart_generator, m5_content_generator,
           m5_questions_generator, teaching_note_part1, teaching_note_part2

LEMMA BarrierNodes ==
    ASSUME TypeOK,
           \/ doc1_complete \/ m3_sync \/ m4_sync \/ synthesis_phase1_sync
    PROVE  NodeStep
  BY BarrierStep DEF doc1_complete, m3_sync, m4_sync, synthesis_phase1_sync

LEMMA DesignType == ASSUME TypeOK PROVE Design \in 0 .. MaxRuns
  <1>1. "titulo" \in Channels
    BY DEF Channels
  <1>2. run \in 0 .. MaxRuns
    BY DEF TypeOK
  <1> QED
    BY <1>1, <1>2, OfType DEF Design

\* The channels that are not kept: every run may write them.
LEMMA NotKept ==
    /\ "dataset_schema" \in Channels \ Kept
    /\ "doc7_dataset" \in Channels \ Kept
    /\ "m3_notebook_code" \in Channels \ Kept
    /\ "doc3_teaching_note" \in Channels \ Kept
  BY DEF Channels, Kept, RequiredOutput

LEMMA SchemaNode == ASSUME TypeOK, schema_designer PROVE NodeStep
  <1>1. Runs("schema_designer")
    BY DEF schema_designer, Wrapped
  <1>2. CASE WritesNothing
    BY <1>1, <1>2, WritesNothingStep
  <1>3. CASE Yields("dataset_schema", {"short", "faulty"}, Design)
    <2>1. {"short", "faulty"} \in SUBSET Kinds
      BY DEF Kinds
    <2> QED
      BY <1>1, <1>3, <2>1, DesignType, NotKept, YieldsStep
  <1> QED
    BY <1>2, <1>3 DEF schema_designer, Wrapped

LEMMA DataGeneratorNode == ASSUME TypeOK, data_generator PROVE NodeStep
  <1> DEFINE kind == IF sub["dataset_schema"].kind = "faulty" THEN "empty"
                                              ELSE sub["dataset_schema"].kind
  <1>1. /\ Runs("data_generator")
        /\ Writes("doc7_dataset", kind, sub["dataset_schema"].of)
    BY DEF data_generator
  <1>2. "empty" \in Kinds
    BY DEF Kinds
  <1>3. kind \in Kinds /\ sub["dataset_schema"].of \in 0 .. MaxRuns
    BY <1>2, NotKept, OfType
  <1> QED
    BY <1>1, <1>3, NotKept, WritesStep

LEMMA ValidatorNode == ASSUME TypeOK, data_validator PROVE NodeStep
  <1>1. Runs("data_validator") /\ softs' = softs
    BY DEF data_validator
  <1>2. softs' \in 0 .. MaxSoft
    BY <1>1 DEF TypeOK
  <1>3. CASE sub["doc7_dataset"].kind = "short" /\ retry < MAX_RETRIES
    <2>1. /\ retry' = retry + 1
          /\ next' = [next EXCEPT !["doc7_dataset"] = Value("empty", 0)]
      BY <1>3 DEF data_validator
    <2>2. retry' \in 0 .. MAX_RETRIES
      BY <1>3, <2>1 DEF TypeOK, MAX_RETRIES
    <2>3. "empty" \in Kinds /\ 0 \in 0 .. MaxRuns
      BY DEF Kinds
    <2> QED
      BY <1>1, <1>2, <2>1, <2>2, <2>3, NotKept, WriteStep
  <1>4. CASE ~(sub["doc7_dataset"].kind = "short" /\ retry < MAX_RETRIES)
    <2>1. retry' = 0 /\ UNCHANGED next
      BY <1>4 DEF data_validator
    <2>2. retry' \in 0 .. MAX_RETRIES
      BY <2>1 DEF MAX_RETRIES
    <2> QED
      BY <1>1, <1>2, <2>1, <2>2, NothingStep
  <1> QED
    BY <1>3, <1>4

LEMMA RequiredOf ==
    /\ RequiredOutput["eda_text_analyst"] = "doc2_eda"
    /\ RequiredOutput["eda_chart_generator"] = "doc2_eda_charts"
    /\ RequiredOutput["m3_notebook_generator"] = "m3_notebook_code"
    /\ RequiredOutput["m3_notebook_executor"] = "m3_metrics_summary"
    /\ RequiredOutput["m3_notebook_questions_generator"] = "m3_notebook_questions"
    /\ {"eda_text_analyst", "eda_chart_generator", "m3_notebook_generator",
        "m3_notebook_executor", "m3_notebook_questions_generator"}
          \subseteq DOMAIN RequiredOutput
  BY DEF RequiredOutput

\* A wrapped node whose body yields, writes or leaves alone its one output.
LEMMA WrappedStep ==
    ASSUME TypeOK, NEW n \in DOMAIN RequiredOutput, NEW c \in Channels,
           c = RequiredOutput[n], NEW bad \in SUBSET Kinds, NEW kind \in Kinds,
           NEW design \in 0 .. MaxRuns, NEW other \in 0 .. MaxRuns, Runs(n),
           IF checkpoint_has_node_output(n) THEN WritesNothing
           ELSE \/ Yields(c, bad, design) \/ Writes(c, kind, other)
                \/ WritesNothing
    PROVE  NodeStep
  <1>1. CASE WritesNothing
    BY <1>1, WritesNothingStep
  <1>2. CASE ~checkpoint_has_node_output(n)
    <2>1. ~Usable(c)
      BY <1>2 DEF checkpoint_has_node_output
    <2> QED
      BY <1>2, <2>1, YieldsStep, WritesStep, WritesNothingStep
  <1> QED
    BY <1>1, <1>2

LEMMA TextAnalystNode == ASSUME TypeOK, eda_text_analyst PROVE NodeStep
  <1>1. /\ "doc2_eda" \in Channels /\ {"empty", "placeholder"} \in SUBSET Kinds
        /\ "fallback" \in Kinds /\ 0 \in 0 .. MaxRuns
    BY DEF Channels, Kinds
  <1>2. sub["doc7_dataset"].of \in 0 .. MaxRuns
    BY NotKept, OfType
  <1>3. /\ Runs("eda_text_analyst")
        /\ IF checkpoint_has_node_output("eda_text_analyst") THEN WritesNothing
           ELSE \/ Yields("doc2_eda", {"empty", "placeholder"},
                          sub["doc7_dataset"].of)
                \/ Writes("doc2_eda", "fallback", 0)
    BY DEF eda_text_analyst, Wrapped
  <1> QED
    BY <1>1, <1>2, <1>3, RequiredOf, WrappedStep

LEMMA ChartNode == ASSUME TypeOK, eda_chart_generator PROVE NodeStep
  <1>1. /\ "doc2_eda_charts" \in Channels /\ {"empty"} \in SUBSET Kinds
        /\ "empty" \in Kinds /\ 0 \in 0 .. MaxRuns
    BY DEF Channels, Kinds
  <1>2. sub["doc7_dataset"].of \in 0 .. MaxRuns
    BY NotKept, OfType
  <1>3. /\ Runs("eda_chart_generator")
        /\ IF checkpoint_has_node_output("eda_chart_generator") THEN WritesNothing
           ELSE \/ Yields("doc2_eda_charts", {"empty"}, sub["doc7_dataset"].of)
                \/ Writes("doc2_eda_charts", "empty", 0)
    BY DEF eda_chart_generator, Wrapped
  <1> QED
    BY <1>1, <1>2, <1>3, RequiredOf, WrappedStep

LEMMA NotebookGeneratorNode == ASSUME TypeOK, m3_notebook_generator PROVE NodeStep
  <1>1. /\ {"placeholder"} \in SUBSET Kinds /\ "empty" \in Kinds
        /\ 0 \in 0 .. MaxRuns
    BY DEF Kinds
  <1>2. /\ Runs("m3_notebook_generator")
        /\ IF checkpoint_has_node_output("m3_notebook_generator") THEN WritesNothing
           ELSE \/ Yields("m3_notebook_code", {"placeholder"}, 0)
                \/ WritesNothing
    BY DEF m3_notebook_generator, Wrapped
  <1> QED
    BY <1>1, <1>2, NotKept, RequiredOf, WrappedStep

LEMMA NotebookQuestionsNode ==
    ASSUME TypeOK, m3_notebook_questions_generator PROVE NodeStep
  <1>1. /\ {"empty"} \in SUBSET Kinds /\ "empty" \in Kinds
        /\ "m3_notebook_questions" \in Channels /\ "m3_metrics_summary" \in Channels
        /\ 0 \in 0 .. MaxRuns
    BY DEF Kinds, Channels
  <1>2. sub["m3_metrics_summary"].of \in 0 .. MaxRuns
    BY <1>1, OfType
  <1>3. /\ Runs("m3_notebook_questions_generator")
        /\ IF checkpoint_has_node_output("m3_notebook_questions_generator")
           THEN WritesNothing
           ELSE \/ Yields("m3_notebook_questions", {"empty"},
                          sub["m3_metrics_summary"].of)
                \/ WritesNothing
    BY DEF m3_notebook_questions_generator, Wrapped
  <1> QED
    BY <1>1, <1>2, <1>3, RequiredOf, WrappedStep

\* The executor may write the notebook beside its own output.
LEMMA ExecutionStep ==
    ASSUME TypeOK, Runs("m3_notebook_executor"), m3_notebook_execution,
           ~checkpoint_has_node_output("m3_notebook_executor")
    PROVE  NodeStep
  <1> DEFINE rows == sub["doc7_dataset"]
  <1>1. /\ {"good", "empty", "placeholder"} \subseteq Kinds
        /\ "m3_metrics_summary" \in Channels /\ 0 \in 0 .. MaxRuns
    BY DEF Kinds, Channels
  <1>2. rows.of \in 0 .. MaxRuns
    BY NotKept, OfType
  <1>3. ~Usable("m3_metrics_summary")
    BY RequiredOf DEF checkpoint_has_node_output
  <1>4. retry' \in 0 .. MAX_RETRIES /\ softs' \in 0 .. MaxSoft
    BY DEF m3_notebook_execution, TypeOK
  <1>5. CASE \E corrected \in BOOLEAN, kind \in {"good", "empty"} :
               next' = [next EXCEPT
                 !["m3_metrics_summary"] = Value(kind, rows.of),
                 !["m3_notebook_code"] =
                    IF corrected THEN Value("good", 0) ELSE @]
    <2>1. PICK corrected \in BOOLEAN, kind \in {"good", "empty"} :
               next' = [next EXCEPT
                 !["m3_metrics_summary"] = Value(kind, rows.of),
                 !["m3_notebook_code"] =
                    IF corrected THEN Value("good", 0) ELSE @]
      BY <1>5
    <2>2. /\ Value(kind, rows.of) \in Values /\ Value("good", 0) \in Values
          /\ MadeIn(Value(kind, rows.of)) \in {0, run}
      BY <1>1, <1>2, ValueType
    <2>3. next \in [Channels -> Values]
      BY DEF TypeOK
    <2>4. next["m3_notebook_code"] \in Values
      BY <2>3, NotKept
    <2>5. next' \in [Channels -> Values]
      BY <2>1, <2>2, <2>3, <2>4
    <2>6. next'["m3_metrics_summary"] = Value(kind, rows.of)
      BY <2>1, <2>3, <1>1
    <2>7. ASSUME NEW c \in Kept
          PROVE  \/ MadeIn(next'[c]) = MadeIn(next[c])
                 \/ ~Usable(c) /\ MadeIn(next'[c]) \in {0, run}
      <3>1. CASE c = "m3_metrics_summary"
        BY <1>3, <2>2, <2>6, <3>1
      <3>2. CASE c # "m3_metrics_summary"
        <4>1. c # "m3_notebook_code"
          BY NotKept
        <4>2. next'[c] = next[c]
          BY <2>1, <2>3, <2>7, <3>2, <4>1, KeptChannels
        <4> QED
          BY <4>2
      <3> QED
        BY <3>1, <3>2
    <2>8. /\ phase = "running"
          /\ UNCHANGED <<form, run, phase, at, st, sub, frontier, out>>
          /\ todo' \subseteq todo
      BY RunsStep
    <2> QED
      BY <1>4, <2>5, <2>7, <2>8, Zenon DEF NodeStep
  <1>6. CASE next' = [next EXCEPT !["m3_notebook_code"] = Value("placeholder", 0)]
    BY <1>1, <1>4, <1>6, NotKept, WriteStep
  <1> QED
    BY <1>5, <1>6 DEF m3_notebook_execution

LEMMA ExecutorNode == ASSUME TypeOK, m3_notebook_executor PROVE NodeStep
  <1>1. Runs("m3_notebook_executor")
    BY DEF m3_notebook_executor, Wrapped
  <1>2. CASE WritesNothing
    BY <1>1, <1>2, WritesNothingStep
  <1>3. CASE /\ m3_notebook_execution
             /\ ~checkpoint_has_node_output("m3_notebook_executor")
    BY <1>1, <1>3, ExecutionStep
  <1> QED
    BY <1>2, <1>3 DEF m3_notebook_executor, Wrapped

\* The call to action changes the text, not the run the report counts as.
LEMMA EdaSyncNode == ASSUME TypeOK, eda_phase2_sync PROVE NodeStep
  <1>1. /\ Runs("eda_phase2_sync")
        /\ retry' \in 0 .. MAX_RETRIES /\ softs' \in 0 .. MaxSoft
    BY DEF eda_phase2_sync, TypeOK
  <1>2. CASE next' = next
    BY <1>1, <1>2, NothingStep
  <1>3. CASE next' = [next EXCEPT !["doc2_eda"].edits = @ + 1]
    <2> DEFINE old == next["doc2_eda"]
    <2>1. next \in [Channels -> Values] /\ "doc2_eda" \in Channels
      BY DEF TypeOK, Channels
    <2>2. old \in Values
      BY <2>1
    <2>3. [old EXCEPT !.edits = @ + 1] \in Values
      BY <2>2 DEF Values
    <2>4. next' = [next EXCEPT !["doc2_eda"] = [old EXCEPT !.edits = @ + 1]]
      BY <1>3
    <2>5. next' \in [Channels -> Values]
      BY <2>1, <2>3, <2>4
    <2>6. ASSUME NEW c \in Kept PROVE MadeIn(next'[c]) = MadeIn(next[c])
      <3>1. CASE c = "doc2_eda"
        <4>1. next'[c] = [old EXCEPT !.edits = @ + 1]
          BY <2>1, <2>4, <3>1
        <4>2. next'[c].kind = old.kind /\ next'[c].run = old.run
          BY <2>2, <4>1 DEF Values
        <4> QED
          BY <3>1, <4>2 DEF MadeIn, is_resumable_state_value
      <3>2. CASE c # "doc2_eda"
        <4>1. next'[c] = next[c]
          BY <2>1, <2>4, <2>6, <3>2, KeptChannels
        <4> QED
          BY <4>1
      <3> QED
        BY <3>1, <3>2
    <2>7. /\ phase = "running"
          /\ UNCHANGED <<form, run, phase, at, st, sub, frontier, out>>
          /\ todo' \subseteq todo
      BY <1>1, RunsStep
    <2> QED
      BY <1>1, <2>5, <2>6, <2>7, Zenon DEF NodeStep
  <1> QED
    BY <1>2, <1>3 DEF eda_phase2_sync

LEMMA NoteNode == ASSUME TypeOK, synthesis_phase2_sync PROVE NodeStep
  <1>1. "good" \in Kinds /\ 0 \in 0 .. MaxRuns
    BY DEF Kinds
  <1> QED
    BY <1>1, NotKept, WritesStep DEF synthesis_phase2_sync

LEMMA EveryNode == ASSUME TypeOK, NodeRuns PROVE NodeStep
  <1>1. CASE Doc1
    BY <1>1, GeneratorNodes, BarrierNodes DEF Doc1
  <1>2. CASE EDA
    BY <1>2, SchemaNode, DataGeneratorNode, ValidatorNode, TextAnalystNode,
       ChartNode, GeneratorNodes, EdaSyncNode DEF EDA
  <1>3. CASE M3
    BY <1>3, GeneratorNodes, NotebookGeneratorNode, ExecutorNode,
       NotebookQuestionsNode, BarrierNodes DEF M3
  <1>4. CASE M4
    BY <1>4, GeneratorNodes, BarrierNodes DEF M4
  <1>5. CASE Synthesis
    BY <1>5, GeneratorNodes, BarrierNodes, NoteNode DEF Synthesis
  <1> QED
    BY <1>1, <1>2, <1>3, <1>4, <1>5 DEF NodeRuns

-----------------------------------------------------------------------------
(* The types *)

LEMMA RouteType == route_master \in MasterNodes
  BY DEF route_master, MasterNodes, Flows, FlowStart

LEMMA FlowTypes ==
    /\ Flows \subseteq MasterNodes
    /\ {"input_adapter", "doc1_flow"} \subseteq MasterNodes
  BY DEF MasterNodes, Flows, FlowStart

\* What going on to a master node does to the state of the flow.
LEMMA EntersType ==
    ASSUME NEW m \in MasterNodes, NEW channels \in [Channels -> Values],
           Enters(m, channels)
    PROVE  /\ at' \in MasterNodes
           /\ sub' \in [Channels -> Values] /\ next' \in [Channels -> Values]
           /\ todo' \subseteq frontier' /\ frontier' \subseteq Nodes
           /\ retry' \in 0 .. MAX_RETRIES
  <1>1. Start(m) \subseteq Nodes
    BY StartType
  <1> QED
    BY <1>1 DEF Enters, MAX_RETRIES

LEMMA InitTypeOK == Init => TypeOK
  <1> SUFFICES ASSUME Init PROVE TypeOK
    OBVIOUS
  <1>1. Absent \in Values
    BY DEF Absent, Values, Kinds
  <1>2. Nothing \in [Channels -> Values]
    BY <1>1 DEF Nothing
  <1> QED
    BY <1>2, FlowTypes DEF Init, TypeOK, MAX_RETRIES

LEMMA NextTypeOK == TypeOK /\ [Next]_vars => TypeOK'
  <1> SUFFICES ASSUME TypeOK, [Next]_vars PROVE TypeOK'
    OBVIOUS
  <1>1. CASE NodeRuns
    <2>1. NodeStep
      BY <1>1, EveryNode
    <2> QED
      BY <2>1 DEF NodeStep, TypeOK
  <1>2. CASE Superstep
    <2>1. NextNodes \subseteq Nodes
      BY NextNodesType DEF TypeOK
    <2> QED
      BY <1>2, <2>1 DEF Superstep, TypeOK
  <1>3. CASE FlowEnd
    <2>1. After[at] \in MasterNodes
      BY <1>3, AfterType DEF FlowEnd
    <2>2. next \in [Channels -> Values]
      BY DEF TypeOK
    <2> QED
      BY <1>3, <2>1, <2>2, EntersType DEF FlowEnd, TypeOK
  <1>4. CASE input_adapter
    BY <1>4, FlowTypes, EntersType DEF input_adapter, TypeOK
  <1>5. CASE output_adapter_intermediate
    <2>1. Content \subseteq Channels
      BY DEF Content
    <2> QED
      BY <1>5, <2>1, RouteType, EntersType
         DEF output_adapter_intermediate, TypeOK
  <1>6. CASE output_adapter_final
    <2>1. Content \subseteq Channels
      BY DEF Content
    <2> QED
      BY <1>6, <2>1, FlowTypes, EntersType
         DEF output_adapter_final, Halts, TypeOK
  <1>7. CASE RunFails
    BY <1>7, FlowTypes, EntersType DEF RunFails, Halts, TypeOK
  <1>8. CASE RunIsCut
    BY <1>8, FlowTypes, EntersType DEF RunIsCut, Halts, TypeOK
  <1>9. CASE RunResumes
    BY <1>9 DEF RunResumes, graph, TypeOK
  <1>10. CASE UNCHANGED vars
    BY <1>10 DEF vars, graph, TypeOK
  <1> QED
    BY <1>1, <1>2, <1>3, <1>4, <1>5, <1>6, <1>7, <1>8, <1>9, <1>10
       DEF Next, GraphStep

\* The state of a case being generated has its shape in every behaviour, for
\* any set of forms and any bounds (TypeOK).
THEOREM GraphTypes == Spec => []TypeOK
  BY InitTypeOK, NextTypeOK, PTL DEF Spec

-----------------------------------------------------------------------------
(* The checkpoint is a ledger *)

\* y has what x has kept, and what it adds is of this run.
Extends(x, y) ==
    \A c \in Kept : IF MadeIn(x[c]) # 0 THEN MadeIn(y[c]) = MadeIn(x[c])
                                        ELSE MadeIn(y[c]) \in {0, run}

\* The copies the flow works on extend the checkpoint, and are the checkpoint
\* when no run is in progress.
LedgerInv ==
    /\ TypeOK
    /\ Extends(st, sub)
    /\ Extends(st, next)
    /\ phase # "running" => sub = st /\ next = st

LEMMA ExtendsItself == ASSUME NEW x PROVE Extends(x, x)
  BY DEF Extends

LEMMA UnusedIsNotKept ==
    ASSUME NEW c \in Kept, Extends(st, sub), ~Usable(c)
    PROVE  MadeIn(st[c]) = 0
  BY DEF Extends, Usable, MadeIn

LEMMA InitLedgerInv == Init => LedgerInv
  <1> SUFFICES ASSUME Init PROVE LedgerInv
    OBVIOUS
  <1>1. st = sub /\ st = next /\ phase = "running"
    BY DEF Init
  <1> QED
    BY <1>1, InitTypeOK, ExtendsItself DEF LedgerInv

\* A run that goes on to another master node does so with copies of the
\* checkpoint.
LEMMA EntersLedger ==
    ASSUME NEW m, NEW channels, Enters(m, channels), st' = channels
    PROVE  /\ sub' = st' /\ next' = st'
           /\ Extends(st, sub)' /\ Extends(st, next)'
  BY DEF Enters, Extends

LEMMA NextLedgerInv == LedgerInv /\ [Next]_vars => LedgerInv'
  <1> SUFFICES ASSUME LedgerInv, [Next]_vars PROVE LedgerInv'
    OBVIOUS
  <1>0. TypeOK /\ TypeOK'
    BY NextTypeOK DEF LedgerInv
  <1>1. CASE NodeRuns
    <2>1. NodeStep
      BY <1>0, <1>1, EveryNode
    <2>2. /\ phase = "running" /\ phase' = phase /\ run' = run
          /\ st' = st /\ sub' = sub
      BY <2>1 DEF NodeStep
    <2>3. ASSUME NEW c \in Kept
          PROVE  IF MadeIn(st[c]) # 0 THEN MadeIn(next'[c]) = MadeIn(st[c])
                                      ELSE MadeIn(next'[c]) \in {0, run}
      <3>1. \/ MadeIn(next'[c]) = MadeIn(next[c])
            \/ ~Usable(c) /\ MadeIn(next'[c]) \in {0, run}
        BY <2>1 DEF NodeStep
      <3>2. IF MadeIn(st[c]) # 0 THEN MadeIn(next[c]) = MadeIn(st[c])
                                 ELSE MadeIn(next[c]) \in {0, run}
        BY DEF LedgerInv, Extends
      <3>3. ~Usable(c) => MadeIn(st[c]) = 0
        BY UnusedIsNotKept DEF LedgerInv
      <3> QED
        BY <3>1, <3>2, <3>3
    <2>4. Extends(st, next)'
      BY <2>2, <2>3 DEF Extends, MadeIn
    <2>5. Extends(st, sub)'
      BY <2>2 DEF LedgerInv, Extends, MadeIn
    <2> QED
      BY <1>0, <2>2, <2>4, <2>5 DEF LedgerInv
  <1>2. CASE Superstep
    <2>1. /\ st' = st /\ sub' = next /\ next' = next /\ run' = run
          /\ phase' = "running"
      BY <1>2 DEF Superstep
    <2>2. Extends(st, sub)' /\ Extends(st, next)'
      BY <2>1 DEF LedgerInv, Extends, MadeIn
    <2> QED
      BY <1>0, <2>1, <2>2 DEF LedgerInv
  <1>3. CASE FlowEnd
    BY <1>0, <1>3, EntersLedger DEF FlowEnd, LedgerInv
  <1>4. CASE input_adapter
    BY <1>0, <1>4, EntersLedger DEF input_adapter, LedgerInv
  <1>5. CASE output_adapter_intermediate
    BY <1>0, <1>5, EntersLedger DEF output_adapter_intermediate, LedgerInv
  <1>6. CASE output_adapter_final
    BY <1>0, <1>6, EntersLedger DEF output_adapter_final, Halts, LedgerInv
  <1>7. CASE RunFails
    BY <1>0, <1>7, EntersLedger DEF RunFails, Halts, LedgerInv
  <1>8. CASE RunIsCut
    BY <1>0, <1>8, EntersLedger DEF RunIsCut, Halts, LedgerInv
  <1>9. CASE RunResumes
    <2>1. sub' = st' /\ next' = st'
      BY <1>9 DEF RunResumes, graph, LedgerInv
    <2>2. Extends(st, sub)' /\ Extends(st, next)'
      BY <2>1 DEF Extends
    <2> QED
      BY <1>0, <2>1, <2>2 DEF LedgerInv
  <1>10. CASE UNCHANGED vars
    <2>1. /\ st' = st /\ sub' = sub /\ next' = next /\ run' = run
          /\ phase' = phase
      BY <1>10 DEF vars, graph
    <2>2. Extends(st, sub)' /\ Extends(st, next)'
      BY <2>1 DEF LedgerInv, Extends, MadeIn
    <2> QED
      BY <1>0, <2>1, <2>2 DEF LedgerInv
  <1> QED
    BY <1>1, <1>2, <1>3, <1>4, <1>5, <1>6, <1>7, <1>8, <1>9, <1>10
       DEF Next, GraphStep

LEMMA LedgerInvHolds == Spec => []LedgerInv
  BY InitLedgerInv, NextLedgerInv, PTL DEF Spec

LEMMA InitIsLedger == Init => Ledger!Init
  <1> SUFFICES ASSUME Init PROVE Ledger!Init
    OBVIOUS
  <1>1. ASSUME NEW c \in Kept PROVE ~is_resumable_state_value(st[c])
    BY <1>1, KeptChannels DEF Init, Nothing, Absent, is_resumable_state_value
  <1>2. KeptRun = [c \in Kept |-> 0]
    BY <1>1 DEF KeptRun
  <1> QED
    BY <1>2 DEF Init, Ledger!Init, Ledger!NotMade

LEMMA SameLedger == ASSUME st' = st PROVE KeptRun' = KeptRun
  BY DEF KeptRun, is_resumable_state_value

LEMMA NextIsLedger == LedgerInv /\ [Next]_vars => [Ledger!Next]_(Ledger!vars)
  <1> SUFFICES ASSUME LedgerInv, [Next]_vars
               PROVE  [Ledger!Next]_(Ledger!vars)
    OBVIOUS
  <1>0. TypeOK /\ TypeOK'
    BY NextTypeOK DEF LedgerInv
  <1>1. CASE st' = st /\ run' = run /\ phase' = phase
    <2>1. UNCHANGED <<KeptRun, run, phase>>
      BY <1>1, SameLedger
    <2> QED
      BY <2>1 DEF Ledger!vars
  <1>2. CASE FlowEnd
    <2>1. phase = "running" /\ st' = next /\ UNCHANGED <<run, phase>>
      BY <1>2 DEF FlowEnd
    <2>2. KeptRun' \in [Kept -> 0 .. MaxRuns]
      <3>1. ASSUME NEW c \in Kept PROVE next[c].run \in 0 .. MaxRuns
        BY <1>0, <3>1, KeptChannels, OfType DEF Values
      <3> QED
        BY <2>1, <3>1 DEF KeptRun
    <2>3. ASSUME NEW c \in Kept
          PROVE  \/ KeptRun'[c] = KeptRun[c]
                 \/ KeptRun[c] = 0 /\ KeptRun'[c] = run
      <3>1. KeptRun[c] = MadeIn(st[c]) /\ KeptRun'[c] = MadeIn(next[c])
        BY <2>1 DEF KeptRun, MadeIn, is_resumable_state_value
      <3> QED
        BY <3>1 DEF LedgerInv, Extends
    <2>4. Ledger!Keep
      BY <2>1, <2>2, <2>3 DEF Ledger!Keep, Ledger!NotMade
    <2> QED
      BY <2>4 DEF Ledger!Next
  <1>3. CASE \E p \in {"cut", "failed", "done"} : phase = "running" /\ Halts(p)
    <2>1. /\ phase = "running" /\ phase' \in {"cut", "failed", "done"}
          /\ st' = st /\ run' = run
      BY <1>3 DEF Halts
    <2>2. UNCHANGED <<KeptRun, run>>
      BY <2>1, SameLedger
    <2>3. Ledger!Stop
      BY <2>1, <2>2 DEF Ledger!Stop, Ledger!Phases
    <2> QED
      BY <2>3 DEF Ledger!Next
  <1>4. CASE RunResumes
    <2>1. st' = st
      BY <1>4 DEF RunResumes, graph
    <2>2. Ledger!Resume
      BY <1>4, <2>1, SameLedger DEF RunResumes, Ledger!Resume
    <2> QED
      BY <2>2 DEF Ledger!Next
  <1>5. CASE NodeRuns
    <2>1. NodeStep
      BY <1>0, <1>5, EveryNode
    <2> QED
      BY <1>1, <2>1 DEF NodeStep
  <1>6. CASE Superstep \/ input_adapter \/ output_adapter_intermediate
    BY <1>1, <1>6 DEF Superstep, input_adapter, output_adapter_intermediate
  <1>7. CASE output_adapter_final \/ RunFails \/ RunIsCut
    BY <1>3, <1>7 DEF output_adapter_final, RunFails, RunIsCut
  <1>8. CASE UNCHANGED vars
    BY <1>1, <1>8 DEF vars, graph
  <1> QED
    BY <1>2, <1>4, <1>5, <1>6, <1>7, <1>8 DEF Next, GraphStep

\* The generation implements the ledger: for any forms and bounds a resume
\* neither loses nor makes again an output the checkpoint has kept
\* (KeepsPaidWork).
THEOREM GraphKeepsPaidWork == Spec => KeepsPaidWork
  BY InitIsLedger, NextIsLedger, LedgerInvHolds, PTL
     DEF Spec, KeepsPaidWork, Ledger!Spec

-----------------------------------------------------------------------------
(* The questions on the notebook *)

Notebook == {"m3_notebook_generator", "m3_notebook_executor",
             "m3_notebook_questions_generator"}
Trio == {"m3_notebook_code", "m3_metrics_summary", "m3_notebook_questions"}
Written == {"good", "placeholder"}

\* What the three channels of the notebook owe each other, in any copy of the
\* state.
Coherent(x) ==
    /\ x["m3_notebook_code"].kind \in Written \cup {"absent"}
    /\ x["m3_metrics_summary"].kind = "good" =>
         x["m3_notebook_code"].kind \in Written
    /\ x["m3_notebook_questions"].kind = "good" =>
         /\ x["m3_metrics_summary"].kind = "good"
         /\ x["m3_metrics_summary"].of = x["m3_notebook_questions"].of
         /\ x["m3_notebook_code"].kind = "good"

\* The supersteps the nodes of the notebook run in.
Alongside ==
    /\ "m3_content_generator" \in frontier =>
         frontier = {"m3_content_generator"}
    /\ "m3_notebook_generator" \in frontier =>
         frontier = {"m3_questions_generator", "m3_notebook_generator"}
    /\ "m3_notebook_executor" \in frontier =>
         frontier = {"m3_sync", "m3_notebook_executor"}
    /\ "m3_notebook_questions_generator" \in frontier =>
         frontier = {"m3_notebook_questions_generator"}

\* Only the nodes that have run since the superstep began have written.
Ran(n) == n \in frontier \ todo
OnlyTheirs ==
    /\ ~Ran("m3_notebook_generator") /\ ~Ran("m3_notebook_executor") =>
         next["m3_notebook_code"] = sub["m3_notebook_code"]
    /\ ~Ran("m3_notebook_executor") =>
         next["m3_metrics_summary"] = sub["m3_metrics_summary"]
    /\ ~Ran("m3_notebook_questions_generator") =>
         next["m3_notebook_questions"] = sub["m3_notebook_questions"]

\* The notebook is written before it is executed.
WrittenFirst ==
    HasNotebook =>
        /\ "m3_notebook_executor" \in frontier =>
             sub["m3_notebook_code"].kind \in Written
        /\ Ran("m3_notebook_generator") =>
             next["m3_notebook_code"].kind \in Written

NotebookInv ==
    /\ TypeOK
    /\ Coherent(st) /\ Coherent(sub) /\ Coherent(next)
    /\ Alongside /\ OnlyTheirs /\ WrittenFirst

LEMMA TrioChannels == Trio \subseteq Channels
  BY DEF Trio, Channels

\* A node that is none of the three leaves their channels alone.
Aside(n) == /\ Runs(n) /\ n \notin Notebook
            /\ \A c \in Trio : next'[c] = next[c]

LEMMA YieldsAside ==
    ASSUME TypeOK, NEW c \in Channels \ Trio, NEW bad, NEW design,
           Yields(c, bad, design)
    PROVE  \A d \in Trio : next'[d] = next[d]
  BY TrioChannels DEF Yields, TypeOK

LEMMA GeneratesAside ==
    ASSUME TypeOK, NEW n \in DOMAIN RequiredOutput \ Notebook, NEW bad,
           Generates(n, bad)
    PROVE  Aside(n)
  <1>1. RequiredOutput[n] \in Channels \ Trio
    BY DEF RequiredOutput, Notebook, Trio, Channels
  <1> QED
    BY <1>1, YieldsAside DEF Generates, Wrapped, WritesNothing, Aside

LEMMA AsideNodes ==
    ASSUME TypeOK, NodeRuns
    PROVE  \/ m3_notebook_generator \/ m3_notebook_executor
           \/ m3_notebook_questions_generator
           \/ \E n : Aside(n)
  <1>1. {"case_architect", "case_writer", "case_questions",
         "eda_questions_generator", "m3_content_generator",
         "m3_questions_generator", "m4_content_generator",
         "m4_questions_generator", "m4_chart_generator",
         "m5_content_generator", "m5_questions_generator",
         "teaching_note_part1", "teaching_note_part2"}
           \subseteq DOMAIN RequiredOutput \ Notebook
    BY DEF RequiredOutput, Notebook
  <1>2. ASSUME \/ case_architect \/ case_writer \/ case_questions
               \/ eda_questions_generator
               \/ m3_content_generator \/ m3_questions_generator
               \/ m4_content_generator \/ m4_questions_generator
               \/ m4_chart_generator
               \/ m5_content_generator \/ m5_questions_generator
               \/ teaching_note_part1 \/ teaching_note_part2
        PROVE  \E n : Aside(n)
    BY <1>1, <1>2, GeneratesAside
       DEF case_architect, case_writer, case_questions,
           eda_questions_generator, m3_content_generator,
           m3_questions_generator, m4_content_generator,
           m4_questions_generator, m4_chart_generator, m5_content_generator,
           m5_questions_generator, teaching_note_part1, teaching_note_part2
  <1>3. ASSUME \/ doc1_complete \/ m3_sync \/ m4_sync
               \/ synthesis_phase1_sync
        PROVE  \E n : Aside(n)
    BY <1>3 DEF doc1_complete, m3_sync, m4_sync, synthesis_phase1_sync,
                Barrier, WritesNothing, Aside, Notebook
  <1>4. {"dataset_schema", "doc7_dataset", "doc2_eda", "doc2_eda_charts",
         "doc3_teaching_note"} \subseteq Channels \ Trio
    BY DEF Channels, Trio
  <1>5. next \in [Channels -> Values]
    BY DEF TypeOK
  <1>6. ASSUME NEW c \in Channels \ Trio, NEW kind, NEW design,
               Writes(c, kind, design)
        PROVE  \A d \in Trio : next'[d] = next[d]
    BY <1>5, <1>6, TrioChannels DEF Writes
  <1>7. ASSUME schema_designer PROVE Aside("schema_designer")
    BY <1>4, <1>7, YieldsAside
       DEF schema_designer, Wrapped, WritesNothing, Aside, Notebook
  <1>8. ASSUME data_generator PROVE Aside("data_generator")
    BY <1>4, <1>6, <1>8 DEF data_generator, Aside, Notebook
  <1>9. ASSUME data_validator PROVE Aside("data_validator")
    BY <1>4, <1>5, <1>9, TrioChannels DEF data_validator, Aside, Notebook
  <1>10. ASSUME eda_text_analyst PROVE Aside("eda_text_analyst")
    BY <1>4, <1>6, <1>10, YieldsAside
       DEF eda_text_analyst, Wrapped, WritesNothing, Aside, Notebook
  <1>11. ASSUME eda_chart_generator PROVE Aside("eda_chart_generator")
    BY <1>4, <1>6, <1>11, YieldsAside
       DEF eda_chart_generator, Wrapped, WritesNothing, Aside, Notebook
  <1>12. ASSUME eda_phase2_sync PROVE Aside("eda_phase2_sync")
    BY <1>4, <1>5, <1>12, TrioChannels DEF eda_phase2_sync, Aside, Notebook
  <1>13. ASSUME synthesis_phase2_sync PROVE Aside("synthesis_phase2_sync")
    BY <1>4, <1>6, <1>13 DEF synthesis_phase2_sync, Aside, Notebook
  <1> QED
    BY <1>2, <1>3, <1>7, <1>8, <1>9, <1>10, <1>11, <1>12, <1>13, Zenon
       DEF NodeRuns, Doc1, EDA, M3, M4, Synthesis

LEMMA NotebookEdges ==
    /\ \A n \in Nodes :
         /\ "m3_content_generator" \notin Successors(n)
         /\ "m3_notebook_generator" \in Successors(n) =>
              n = "m3_content_generator"
         /\ "m3_notebook_executor" \in Successors(n) =>
              n = "m3_notebook_generator"
         /\ "m3_notebook_questions_generator" \in Successors(n) =>
              n = "m3_notebook_executor"
    /\ Successors("m3_content_generator") =
         {"m3_questions_generator", "m3_notebook_generator"}
    /\ Successors("m3_questions_generator") = {"m3_sync"}
    /\ Successors("m3_notebook_generator") = {"m3_notebook_executor"}
    /\ Successors("m3_notebook_executor") =
         {"m3_notebook_questions_generator"}
    /\ Successors("m3_sync") = {}
  BY DEF Successors, Nodes, Edges

LEMMA NotebookStarts ==
    \A m \in MasterNodes :
      /\ Start(m) \cap Notebook = {}
      /\ "m3_content_generator" \in Start(m) =>
           Start(m) = {"m3_content_generator"}
  BY DEF Start, Flows, FlowStart, Notebook, MasterNodes

\* The superstep after one that keeps Alongside.
LEMMA NextAlongside ==
    ASSUME TypeOK, Alongside
    PROVE  /\ "m3_content_generator" \notin NextNodes
           /\ "m3_notebook_generator" \in NextNodes =>
                NextNodes = {"m3_questions_generator", "m3_notebook_generator"}
           /\ "m3_notebook_executor" \in NextNodes =>
                /\ frontier = {"m3_questions_generator",
                               "m3_notebook_generator"}
                /\ NextNodes = {"m3_sync", "m3_notebook_executor"}
           /\ "m3_notebook_questions_generator" \in NextNodes =>
                NextNodes = {"m3_notebook_questions_generator"}
  <1>1. frontier \subseteq Nodes
    BY DEF TypeOK
  <1>2. "m3_content_generator" \notin NextNodes
    BY <1>1, NotebookEdges DEF NextNodes
  <1>3. ASSUME "m3_notebook_generator" \in NextNodes
        PROVE  NextNodes = {"m3_questions_generator", "m3_notebook_generator"}
    <2>1. "m3_content_generator" \in frontier
      BY <1>1, <1>3, NotebookEdges DEF NextNodes
    <2>2. frontier = {"m3_content_generator"}
      BY <2>1 DEF Alongside
    <2> QED
      BY <2>2, NotebookEdges DEF NextNodes
  <1>4. ASSUME "m3_notebook_executor" \in NextNodes
        PROVE  /\ frontier = {"m3_questions_generator",
                              "m3_notebook_generator"}
               /\ NextNodes = {"m3_sync", "m3_notebook_executor"}
    <2>1. "m3_notebook_generator" \in frontier
      BY <1>1, <1>4, NotebookEdges DEF NextNodes
    <2>2. frontier = {"m3_questions_generator", "m3_notebook_generator"}
      BY <2>1 DEF Alongside
    <2> QED
      BY <2>2, NotebookEdges DEF NextNodes
  <1>5. ASSUME "m3_notebook_questions_generator" \in NextNodes
        PROVE  NextNodes = {"m3_notebook_questions_generator"}
    <2>1. "m3_notebook_executor" \in frontier
      BY <1>1, <1>5, NotebookEdges DEF NextNodes
    <2>2. frontier = {"m3_sync", "m3_notebook_executor"}
      BY <2>1 DEF Alongside
    <2> QED
      BY <2>2, NotebookEdges DEF NextNodes
  <1> QED
    BY <1>2, <1>3, <1>4, <1>5

LEMMA InitNotebookInv == Init => NotebookInv
  <1> SUFFICES ASSUME Init PROVE NotebookInv
    OBVIOUS
  <1>1. \A c \in Trio : Nothing[c].kind = "absent"
    BY TrioChannels DEF Nothing, Absent
  <1>2. Coherent(st) /\ Coherent(sub) /\ Coherent(next)
    BY <1>1 DEF Init, Coherent, Trio
  <1> QED
    BY <1>2, InitTypeOK
       DEF Init, NotebookInv, Alongside, OnlyTheirs, WrittenFirst, Ran

\* A run that goes on to another master node does so with coherent copies.
LEMMA EntersNotebook ==
    ASSUME NEW m \in MasterNodes, NEW channels, Enters(m, channels),
           Coherent(channels), UNCHANGED form
    PROVE  /\ Coherent(sub') /\ Coherent(next')
           /\ Alongside' /\ OnlyTheirs' /\ WrittenFirst'
  <1>1. frontier' = Start(m) /\ sub' = channels /\ next' = channels
    BY DEF Enters
  <1>2. frontier' = todo'
    BY DEF Enters
  <1>3. Alongside'
    BY <1>1, NotebookStarts DEF Alongside, Notebook
  <1>4. OnlyTheirs'
    BY <1>1 DEF OnlyTheirs
  <1>5. WrittenFirst'
    BY <1>1, <1>2, NotebookStarts DEF WrittenFirst, Ran, Notebook
  <1> QED
    BY <1>1, <1>3, <1>4, <1>5

\* A node that is not of the notebook.
LEMMA AsideKeeps ==
    ASSUME NotebookInv, NEW n, Aside(n)
    PROVE  Coherent(next') /\ OnlyTheirs' /\ WrittenFirst'
  <1>1. /\ next'["m3_notebook_code"] = next["m3_notebook_code"]
        /\ next'["m3_metrics_summary"] = next["m3_metrics_summary"]
        /\ next'["m3_notebook_questions"] = next["m3_notebook_questions"]
    BY DEF Aside, Trio
  <1>2. /\ sub' = sub /\ form' = form /\ frontier' = frontier
        /\ todo' = todo \ {n}
    BY DEF Aside, Runs
  <1>3. \A k \in Notebook : Ran(k)' <=> Ran(k)
    BY <1>2 DEF Aside, Ran
  <1> QED
    BY <1>1, <1>2, <1>3
       DEF NotebookInv, Coherent, OnlyTheirs, WrittenFirst, HasNotebook,
           Notebook

\* A node of the notebook that finds its output there, or has nothing to do.
LEMMA SkipKeeps ==
    ASSUME NotebookInv, NEW n \in Notebook, Runs(n), UNCHANGED next,
           n = "m3_notebook_generator" /\ HasNotebook =>
             next["m3_notebook_code"].kind \in Written
    PROVE  Coherent(next') /\ OnlyTheirs' /\ WrittenFirst'
  <1>1. /\ sub' = sub /\ form' = form /\ frontier' = frontier
        /\ todo' = todo \ {n} /\ n \in todo
    BY DEF Runs
  <1>2. \A k : Ran(k) => Ran(k)'
    BY <1>1 DEF Ran
  <1>3. OnlyTheirs'
    BY <1>1, <1>2 DEF NotebookInv, OnlyTheirs
  <1>4. Ran("m3_notebook_generator")' =>
          n = "m3_notebook_generator" \/ Ran("m3_notebook_generator")
    BY <1>1 DEF Ran
  <1>5. WrittenFirst'
    BY <1>1, <1>4 DEF NotebookInv, WrittenFirst, HasNotebook
  <1> QED
    BY <1>3, <1>5 DEF NotebookInv, Coherent

\* A usable notebook is one that was written.
LEMMA UsableCode ==
    ASSUME Coherent(sub)
    PROVE  Usable("m3_notebook_code") <=>
             sub["m3_notebook_code"].kind \in Written
  BY DEF Coherent, Usable, is_resumable_state_value, Written

LEMMA NotebookGeneratorKeeps ==
    ASSUME NotebookInv, m3_notebook_generator
    PROVE  Coherent(next') /\ OnlyTheirs' /\ WrittenFirst'
  <1> DEFINE n == "m3_notebook_generator"
  <1>1. Runs(n)
    BY DEF m3_notebook_generator, Wrapped
  <1>2. /\ sub' = sub /\ form' = form /\ frontier' = frontier
        /\ todo' = todo \ {n} /\ n \in todo
    BY <1>1 DEF Runs
  <1>3. n \in frontier
    BY <1>2 DEF NotebookInv, TypeOK
  <1>4. frontier = {"m3_questions_generator", n}
    BY <1>3 DEF NotebookInv, Alongside
  <1>5. /\ ~Ran(n) /\ ~Ran("m3_notebook_executor")
        /\ ~Ran("m3_notebook_questions_generator")
        /\ ~Ran("m3_notebook_executor")'
        /\ ~Ran("m3_notebook_questions_generator")'
    BY <1>2, <1>4 DEF Ran
  <1>6. \A c \in Trio : next[c] = sub[c]
    BY <1>5 DEF NotebookInv, OnlyTheirs, Trio
  <1>7. CASE checkpoint_has_node_output(n)
    <2>1. Usable("m3_notebook_code")
      BY <1>7, RequiredOf DEF checkpoint_has_node_output
    <2>2. next["m3_notebook_code"].kind \in Written
      BY <1>6, <2>1, UsableCode DEF NotebookInv, Trio
    <2>3. UNCHANGED next
      BY <1>7 DEF m3_notebook_generator, Wrapped, WritesNothing
    <2> QED
      BY <1>1, <2>2, <2>3, SkipKeeps DEF Notebook
  <1>8. CASE ~checkpoint_has_node_output(n) /\ ~HasNotebook
    <2>1. UNCHANGED next
      BY <1>8 DEF m3_notebook_generator, Wrapped, WritesNothing
    <2> QED
      BY <1>1, <1>8, <2>1, SkipKeeps DEF Notebook
  <1>9. CASE ~checkpoint_has_node_output(n) /\ HasNotebook
    <2>1. Yields("m3_notebook_code", {"placeholder"}, 0)
      BY <1>9 DEF m3_notebook_generator, Wrapped
    <2>2. PICK kind \in Written :
            next' = [next EXCEPT !["m3_notebook_code"] = Value(kind, 0)]
      BY <2>1 DEF Yields, Written
    <2>3. next \in [Channels -> Values]
      BY DEF NotebookInv, TypeOK
    <2>4. /\ next'["m3_notebook_code"].kind \in Written
          /\ next'["m3_metrics_summary"] = next["m3_metrics_summary"]
          /\ next'["m3_notebook_questions"] = next["m3_notebook_questions"]
      BY <2>2, <2>3, TrioChannels DEF Value, Trio
    <2>5. sub["m3_notebook_code"].kind \notin Written
      BY <1>9, RequiredOf, UsableCode
         DEF checkpoint_has_node_output, NotebookInv
    <2>6. sub["m3_notebook_questions"].kind # "good"
      BY <2>5 DEF NotebookInv, Coherent, Written
    <2>7. next'["m3_notebook_questions"].kind # "good"
      BY <1>6, <2>4, <2>6 DEF Trio
    <2>8. Coherent(next')
      BY <2>4, <2>7 DEF Coherent
    <2>9. OnlyTheirs'
      <3>1. Ran(n)'
        BY <1>2, <1>3 DEF Ran
      <3> QED
        BY <1>2, <1>6, <2>4, <3>1 DEF OnlyTheirs, Trio
    <2>10. WrittenFirst'
      BY <1>2, <1>4, <2>4 DEF WrittenFirst
    <2> QED
      BY <2>8, <2>9, <2>10
  <1> QED
    BY <1>7, <1>8, <1>9

LEMMA ExecutorKeeps ==
    ASSUME NotebookInv, m3_notebook_executor
    PROVE  Coherent(next') /\ OnlyTheirs' /\ WrittenFirst'
  <1> DEFINE n == "m3_notebook_executor"
  <1>1. Runs(n)
    BY DEF m3_notebook_executor, Wrapped
  <1>2. /\ sub' = sub /\ form' = form /\ frontier' = frontier
        /\ todo' = todo \ {n} /\ n \in todo
    BY <1>1 DEF Runs
  <1>3. n \in frontier
    BY <1>2 DEF NotebookInv, TypeOK
  <1>4. frontier = {"m3_sync", n}
    BY <1>3 DEF NotebookInv, Alongside
  <1>5. /\ ~Ran(n) /\ ~Ran("m3_notebook_generator")
        /\ ~Ran("m3_notebook_questions_generator")
        /\ ~Ran("m3_notebook_generator")'
        /\ ~Ran("m3_notebook_questions_generator")'
    BY <1>2, <1>4 DEF Ran
  <1>6. \A c \in Trio : next[c] = sub[c]
    BY <1>5 DEF NotebookInv, OnlyTheirs, Trio
  <1>7. CASE UNCHANGED next
    BY <1>1, <1>7, SkipKeeps DEF Notebook
  <1>8. CASE /\ ~checkpoint_has_node_output(n)
             /\ IsExecuted /\ m3_notebook_execution
    <2>1. next \in [Channels -> Values]
      BY DEF NotebookInv, TypeOK
    <2>2. HasNotebook
      BY <1>8 DEF HasNotebook, IsExecuted
    <2>3. sub["m3_notebook_code"].kind \in Written
      BY <1>3, <2>2 DEF NotebookInv, WrittenFirst
    <2>4. /\ next'["m3_notebook_code"].kind \in Written
          /\ next'["m3_notebook_questions"] = next["m3_notebook_questions"]
      <3>1. CASE \E corrected \in BOOLEAN, kind \in {"good", "empty"} :
                   next' = [next EXCEPT
                     !["m3_metrics_summary"] =
                        Value(kind, sub["doc7_dataset"].of),
                     !["m3_notebook_code"] =
                        IF corrected THEN Value("good", 0) ELSE @]
        BY <1>6, <2>1, <2>3, <3>1, TrioChannels DEF Value, Written, Trio
      <3>2. CASE next' = [next EXCEPT
                            !["m3_notebook_code"] = Value("placeholder", 0)]
        BY <2>1, <3>2, TrioChannels DEF Value, Written, Trio
      <3> QED
        BY <1>8, <3>1, <3>2 DEF m3_notebook_execution
    <2>5. ~Usable("m3_metrics_summary")
      BY <1>8, RequiredOf DEF checkpoint_has_node_output
    <2>6. sub["m3_metrics_summary"].kind # "good"
      BY <2>5 DEF Usable, is_resumable_state_value
    <2>7. next'["m3_notebook_questions"].kind # "good"
      BY <1>6, <2>4, <2>6 DEF NotebookInv, Coherent, Trio
    <2>8. Coherent(next')
      BY <2>4, <2>7 DEF Coherent
    <2>9. OnlyTheirs'
      <3>1. Ran(n)'
        BY <1>2, <1>3 DEF Ran
      <3> QED
        BY <1>2, <1>6, <2>4, <3>1 DEF OnlyTheirs, Trio
    <2>10. WrittenFirst'
      BY <1>2, <1>5, <2>3 DEF WrittenFirst
    <2> QED
      BY <2>8, <2>9, <2>10
  <1> QED
    BY <1>7, <1>8 DEF m3_notebook_executor, Wrapped, WritesNothing

LEMMA NotebookQuestionsKeeps ==
    ASSUME NotebookInv, m3_notebook_questions_generator
    PROVE  Coherent(next') /\ OnlyTheirs' /\ WrittenFirst'
  <1> DEFINE n == "m3_notebook_questions_generator"
  <1>1. Runs(n)
    BY DEF m3_notebook_questions_generator, Wrapped
  <1>2. /\ sub' = sub /\ form' = form /\ frontier' = frontier
        /\ todo' = todo \ {n} /\ n \in todo
    BY <1>1 DEF Runs
  <1>3. n \in frontier
    BY <1>2 DEF NotebookInv, TypeOK
  <1>4. frontier = {n}
    BY <1>3 DEF NotebookInv, Alongside
  <1>5. /\ ~Ran(n) /\ ~Ran("m3_notebook_generator")
        /\ ~Ran("m3_notebook_executor")
        /\ ~Ran("m3_notebook_generator")' /\ ~Ran("m3_notebook_executor")'
    BY <1>2, <1>4 DEF Ran
  <1>6. \A c \in Trio : next[c] = sub[c]
    BY <1>5 DEF NotebookInv, OnlyTheirs, Trio
  <1>7. CASE UNCHANGED next
    BY <1>1, <1>7, SkipKeeps DEF Notebook
  <1>8. CASE /\ ~IsDegraded /\ sub["m3_metrics_summary"].kind = "good"
             /\ Yields("m3_notebook_questions", {"empty"},
                       sub["m3_metrics_summary"].of)
    <2>1. PICK kind \in {"good", "empty"} :
            next' = [next EXCEPT !["m3_notebook_questions"] =
                       Value(kind, sub["m3_metrics_summary"].of)]
      BY <1>8 DEF Yields
    <2>2. next \in [Channels -> Values]
      BY DEF NotebookInv, TypeOK
    <2>3. /\ next'["m3_notebook_code"] = sub["m3_notebook_code"]
          /\ next'["m3_metrics_summary"] = sub["m3_metrics_summary"]
          /\ next'["m3_notebook_questions"].of = sub["m3_metrics_summary"].of
      BY <1>6, <2>1, <2>2, TrioChannels DEF Value, Trio
    <2>4. sub["m3_notebook_code"].kind = "good"
      BY <1>8 DEF IsDegraded, NotebookInv, Coherent, Written
    <2>5. Coherent(next')
      BY <1>8, <2>3, <2>4 DEF Coherent, Written
    <2>6. OnlyTheirs'
      <3>1. Ran(n)'
        BY <1>2, <1>3 DEF Ran
      <3> QED
        BY <1>2, <2>3, <3>1 DEF OnlyTheirs
    <2>7. WrittenFirst'
      BY <1>2, <1>4, <1>5 DEF WrittenFirst
    <2> QED
      BY <2>5, <2>6, <2>7
  <1> QED
    BY <1>7, <1>8
       DEF m3_notebook_questions_generator, Wrapped, WritesNothing

LEMMA NextNotebookInv == NotebookInv /\ [Next]_vars => NotebookInv'
  <1> SUFFICES ASSUME NotebookInv, [Next]_vars PROVE NotebookInv'
    OBVIOUS
  <1>0. TypeOK /\ TypeOK'
    BY NextTypeOK DEF NotebookInv
  <1>1. CASE NodeRuns
    <2>1. /\ st' = st /\ sub' = sub /\ frontier' = frontier
      BY <1>0, <1>1, EveryNode DEF NodeStep
    <2>2. Coherent(next') /\ OnlyTheirs' /\ WrittenFirst'
      BY <1>0, <1>1, AsideNodes, AsideKeeps, NotebookGeneratorKeeps,
         ExecutorKeeps, NotebookQuestionsKeeps
    <2>3. Alongside'
      BY <2>1 DEF NotebookInv, Alongside
    <2> QED
      BY <1>0, <2>1, <2>2, <2>3 DEF NotebookInv, Coherent
  <1>2. CASE Superstep
    <2>1. /\ todo = {} /\ st' = st /\ sub' = next /\ next' = next
          /\ frontier' = NextNodes /\ todo' = NextNodes /\ form' = form
      BY <1>2 DEF Superstep
    <2>2. Alongside'
      BY <1>0, <2>1, NextAlongside DEF NotebookInv, Alongside
    <2>3. OnlyTheirs'
      BY <2>1 DEF OnlyTheirs
    <2>4. WrittenFirst'
      <3>1. ~Ran("m3_notebook_generator")'
        BY <2>1 DEF Ran
      <3>2. "m3_notebook_executor" \in frontier' =>
              Ran("m3_notebook_generator")
        BY <1>0, <2>1, NextAlongside DEF NotebookInv, Ran
      <3> QED
        BY <2>1, <3>1, <3>2 DEF NotebookInv, WrittenFirst, HasNotebook
    <2> QED
      BY <1>0, <2>1, <2>2, <2>3, <2>4 DEF NotebookInv, Coherent
  <1>3. CASE FlowEnd
    <2>1. After[at] \in MasterNodes
      BY <1>3, AfterType DEF FlowEnd
    <2>2. Coherent(st')
      BY <1>3 DEF FlowEnd, NotebookInv, Coherent
    <2> QED
      BY <1>0, <1>3, <2>1, <2>2, EntersNotebook DEF FlowEnd, NotebookInv
  <1>4. CASE input_adapter
    <2>1. st' = st
      BY <1>4 DEF input_adapter
    <2> QED
      BY <1>0, <1>4, <2>1, FlowTypes, EntersNotebook
         DEF input_adapter, NotebookInv, Coherent
  <1>5. CASE output_adapter_intermediate
    <2>1. st' = st
      BY <1>5 DEF output_adapter_intermediate
    <2> QED
      BY <1>0, <1>5, <2>1, RouteType, EntersNotebook
         DEF output_adapter_intermediate, NotebookInv, Coherent
  <1>6. CASE output_adapter_final \/ RunFails \/ RunIsCut
    <2>1. st' = st /\ form' = form /\ Enters("input_adapter", st)
      BY <1>6 DEF output_adapter_final, RunFails, RunIsCut, Halts
    <2> QED
      BY <1>0, <2>1, FlowTypes, EntersNotebook DEF NotebookInv, Coherent
  <1>7. CASE RunResumes \/ UNCHANGED vars
    <2>1. UNCHANGED <<form, st, sub, next, frontier, todo>>
      BY <1>7 DEF RunResumes, vars, graph
    <2> QED
      BY <1>0, <2>1
         DEF NotebookInv, Coherent, Alongside, OnlyTheirs, WrittenFirst, Ran,
             HasNotebook
  <1> QED
    BY <1>1, <1>2, <1>3, <1>4, <1>5, <1>6, <1>7 DEF Next, GraphStep

\* The questions about the student's own results speak of the metrics of a
\* notebook that ran and was kept, for any forms and bounds and after any
\* number of resumes (QuestionsFromRealRun).
THEOREM NotebookQuestions == Spec => []QuestionsFromRealRun
  <1>1. NotebookInv => QuestionsFromRealRun
    BY DEF NotebookInv, Coherent, QuestionsFromRealRun
  <1> QED
    BY <1>1, InitNotebookInv, NextNotebookInv, PTL DEF Spec

-----------------------------------------------------------------------------
(* The order of the nodes *)

IsDecided(v) == v.kind # "absent"

\* What a node that has run has decided, what it may touch, and what has been
\* decided in its flow before it runs.
NotebookCode == IF HasNotebook THEN {"m3_notebook_code"} ELSE {}
Makes(n) ==
    CASE n = "schema_designer" -> {"dataset_schema"}
      [] n = "data_generator" -> {"doc7_dataset"}
      [] n = "m3_notebook_generator" -> NotebookCode
      [] n = "synthesis_phase2_sync" -> {"doc3_teaching_note"}
      [] n \in {"m3_notebook_executor", "m3_notebook_questions_generator"} ->
           {}
      [] n \in DOMAIN RequiredOutput
                 \ {"m3_notebook_generator", "m3_notebook_executor",
                    "m3_notebook_questions_generator"} ->
           {RequiredOutput[n]}
      [] OTHER -> {}
Touches(n) ==
    CASE n = "data_validator" -> {"doc7_dataset"}
      [] n = "eda_phase2_sync" -> {"doc2_eda"}
      [] n \in {"m3_notebook_executor", "m3_notebook_questions_generator"} ->
           NotebookCode \cup Optional
      [] OTHER -> Makes(n)

Rows == {"dataset_schema", "doc7_dataset"}
Earlier ==
    [case_architect |-> {},
     case_writer |-> {"titulo"},
     case_questions |-> {"titulo"},
     doc1_complete |-> {"titulo", "doc1_narrativa", "doc1_preguntas"},
     schema_designer |-> {},
     data_generator |-> {"dataset_schema"},
     data_validator |-> Rows,
     eda_text_analyst |-> Rows,
     eda_chart_generator |-> Rows \cup {"doc2_eda"},
     eda_questions_generator |-> Rows \cup {"doc2_eda", "doc2_eda_charts"},
     eda_phase2_sync |-> Rows \cup {"doc2_eda", "doc2_eda_charts",
                                    "doc2_preguntas_eda"},
     m3_content_generator |-> {},
     m3_questions_generator |-> {"m3_content"},
     m3_notebook_generator |-> {"m3_content"},
     m3_notebook_executor |-> {"m3_content", "m3_questions"} \cup NotebookCode,
     m3_notebook_questions_generator |->
       {"m3_content", "m3_questions"} \cup NotebookCode,
     m3_sync |-> {"m3_content", "m3_questions"} \cup NotebookCode,
     m4_content_generator |-> {},
     m4_questions_generator |-> {"m4_content"},
     m4_chart_generator |-> {"m4_content"},
     m4_sync |-> {"m4_content", "m4_questions", "m4_charts"},
     m5_content_generator |-> {},
     teaching_note_part1 |-> {},
     synthesis_phase1_sync |-> {"m5_content", "doc3_teaching_note_part1"},
     m5_questions_generator |-> {"m5_content", "doc3_teaching_note_part1"},
     teaching_note_part2 |->
       {"m5_content", "doc3_teaching_note_part1", "m5_questions"},
     synthesis_phase2_sync |->
       {"m5_content", "doc3_teaching_note_part1", "m5_questions",
        "doc3_teaching_note_part2"}]

\* The supersteps of a flow.
Steps ==
    [doc1_flow |-> {{"case_architect"}, {"case_writer", "case_questions"},
                    {"doc1_complete"}},
     eda_flow |-> {{"schema_designer"}, {"data_generator"},
                   {"data_validator"}, {"eda_text_analyst"},
                   {"eda_chart_generator"}, {"eda_questions_generator"},
                   {"eda_phase2_sync"}},
     m3_flow |-> {{"m3_content_generator"},
                  {"m3_questions_generator", "m3_notebook_generator"},
                  {"m3_sync", "m3_notebook_executor"},
                  {"m3_notebook_questions_generator"}, {"m3_sync"}},
     m4_flow |-> {{"m4_content_generator"},
                  {"m4_questions_generator", "m4_chart_generator"},
                  {"m4_sync"}},
     synthesis_flow |-> {{"m5_content_generator", "teaching_note_part1"},
                         {"synthesis_phase1_sync"},
                         {"m5_questions_generator"}, {"teaching_note_part2"},
                         {"synthesis_phase2_sync"}}]

\* What a flow decides, and what has been decided at a node of the master.
FlowMakes ==
    [doc1_flow |-> {"titulo", "doc1_narrativa", "doc1_preguntas"},
     eda_flow |-> Rows \cup {"doc2_eda", "doc2_eda_charts",
                             "doc2_preguntas_eda"},
     m3_flow |-> {"m3_content", "m3_questions"} \cup NotebookCode,
     m4_flow |-> {"m4_content", "m4_questions", "m4_charts"},
     synthesis_flow |-> {"m5_content", "m5_questions",
                         "doc3_teaching_note_part1",
                         "doc3_teaching_note_part2", "doc3_teaching_note"}]
Route == IF HasEDA THEN {"doc1_flow", "eda_flow", "m3_flow"}
                   ELSE {"doc1_flow"}
FlowsBefore(m) ==
    CASE m \in {"input_adapter", "doc1_flow"} -> {}
      [] m \in {"output_adapter_intermediate", "eda_flow"} -> {"doc1_flow"}
      [] m = "m3_flow" -> {"doc1_flow", "eda_flow"}
      [] m = "m4_flow" -> Route
      [] m = "synthesis_flow" -> Route \cup {"m4_flow"}
      [] OTHER -> Route \cup {"m4_flow", "synthesis_flow"}

OnRoute == Channels \cap (Promised \cup Optional)

OrderInv ==
    /\ TypeOK
    /\ at \in {"eda_flow", "m3_flow"} => HasEDA
    /\ IF at \in Flows THEN frontier \in Steps[at] ELSE frontier = {}
    /\ \A c \in Channels : /\ IsDecided(st[c]) => IsDecided(sub[c])
                           /\ IsDecided(sub[c]) => IsDecided(next[c])
    /\ \A f \in FlowsBefore(at) : \A c \in FlowMakes[f] : IsDecided(st[c])
    /\ \A n \in frontier : \A c \in Earlier[n] : IsDecided(sub[c])
    /\ \A n \in frontier \ todo : \A c \in Makes(n) : IsDecided(next[c])
    /\ \A c \in Channels \ OnRoute :
         st[c] = Absent /\ sub[c] = Absent /\ next[c] = Absent
    /\ phase = "done" =>
         out = Content /\ \A c \in Promised : IsDecided(st[c])

\* What a node does, in these terms.
Advances(n) ==
    /\ Runs(n)
    /\ \A c \in Channels : IsDecided(next[c]) => IsDecided(next'[c])
    /\ \A c \in Makes(n) : IsDecided(next'[c])
    /\ \A c \in Channels \ Touches(n) : next'[c] = next[c]

\* The nodes about the rows are named by their actions.
Itself(n) == /\ n = "data_generator" => data_generator
             /\ n = "data_validator" => data_validator
             /\ n = "eda_text_analyst" => eda_text_analyst
             /\ n = "eda_chart_generator" => eda_chart_generator
             /\ n = "eda_phase2_sync" => eda_phase2_sync
             /\ n = "m3_notebook_executor" => m3_notebook_executor
             /\ n = "m3_notebook_questions_generator" =>
                  m3_notebook_questions_generator
RowNodes == {"data_generator", "data_validator", "eda_text_analyst",
             "eda_chart_generator", "eda_phase2_sync", "m3_notebook_executor"}

LEMMA OthersAreThemselves ==
    \A n : n \notin RowNodes \cup {"m3_notebook_questions_generator"} =>
             Itself(n)
  BY DEF RowNodes, Itself

LEMMA SkipAdvances ==
    ASSUME OrderInv, NEW n, Runs(n), UNCHANGED next,
           \A c \in Makes(n) : c \in Channels /\ IsDecided(sub[c])
    PROVE  Advances(n)
  BY DEF OrderInv, Advances

\* A node that writes its one output.
LEMMA WriteAdvances ==
    ASSUME OrderInv, NEW n, Runs(n), NEW c \in Channels,
           Makes(n) \subseteq {c}, c \in Touches(n),
           NEW kind, kind # "absent", NEW design,
           next' = [next EXCEPT ![c] = Value(kind, design)]
    PROVE  Advances(n)
  <1>1. next \in [Channels -> Values]
    BY DEF OrderInv, TypeOK
  <1>2. IsDecided(next'[c])
    BY <1>1 DEF Value, IsDecided
  <1>3. \A d \in Channels \ {c} : next'[d] = next[d]
    BY <1>1
  <1> QED
    BY <1>2, <1>3 DEF Advances

LEMMA YieldsAdvances ==
    ASSUME OrderInv, NEW n, Runs(n), NEW c \in Channels,
           Makes(n) \subseteq {c}, c \in Touches(n),
           NEW bad, "absent" \notin bad, NEW design, Yields(c, bad, design)
    PROVE  Advances(n)
  <1>1. PICK kind \in {"good"} \cup bad :
          next' = [next EXCEPT ![c] = Value(kind, design)]
    BY DEF Yields
  <1>2. kind # "absent"
    OBVIOUS
  <1> QED
    BY <1>1, <1>2, WriteAdvances

Plain == DOMAIN RequiredOutput
           \ {"m3_notebook_generator", "m3_notebook_executor",
              "m3_notebook_questions_generator"}

LEMMA PlainMakes ==
    \A n \in Plain : /\ Makes(n) = {RequiredOutput[n]}
                     /\ Touches(n) = {RequiredOutput[n]}
                     /\ RequiredOutput[n] \in Channels
  BY DEF Plain, RequiredOutput, Makes, Touches, Channels

\* A usable output of the flow's copy is a decided one.
LEMMA UsableIsDecided ==
    ASSUME NEW c, Usable(c) PROVE IsDecided(sub[c])
  BY DEF Usable, is_resumable_state_value, IsDecided

LEMMA PlainAdvances ==
    ASSUME OrderInv, NEW n \in Plain, Runs(n),
           \/ checkpoint_has_node_output(n) /\ UNCHANGED next
           \/ \E bad, design :
                "absent" \notin bad /\ Yields(RequiredOutput[n], bad, design)
           \/ \E kind, design :
                kind # "absent" /\ Writes(RequiredOutput[n], kind, design)
    PROVE  Advances(n)
  <1>1. ASSUME checkpoint_has_node_output(n), UNCHANGED next
        PROVE  Advances(n)
    BY <1>1, PlainMakes, UsableIsDecided, SkipAdvances
       DEF checkpoint_has_node_output
  <1>2. ASSUME NEW bad, NEW design, "absent" \notin bad,
               Yields(RequiredOutput[n], bad, design)
        PROVE  Advances(n)
    BY <1>2, PlainMakes, YieldsAdvances
  <1>3. ASSUME NEW kind, NEW design, kind # "absent",
               Writes(RequiredOutput[n], kind, design)
        PROVE  Advances(n)
    BY <1>3, PlainMakes, WriteAdvances DEF Writes
  <1> QED
    BY <1>1, <1>2, <1>3

LEMMA GeneratesAdvances ==
    ASSUME OrderInv, NEW n \in Plain, NEW bad, "absent" \notin bad,
           Generates(n, bad)
    PROVE  Advances(n)
  BY PlainAdvances DEF Generates, Wrapped, WritesNothing

LEMMA OtherMakes ==
    /\ \A n \in {"doc1_complete", "m3_sync", "m4_sync", "data_validator",
                 "synthesis_phase1_sync", "eda_phase2_sync",
                 "m3_notebook_executor", "m3_notebook_questions_generator"} :
         Makes(n) = {}
    /\ \A n \in {"doc1_complete", "m3_sync", "m4_sync",
                 "synthesis_phase1_sync"} : Touches(n) = {}
    /\ Makes("schema_designer") = {"dataset_schema"}
    /\ Touches("schema_designer") = {"dataset_schema"}
    /\ Makes("data_generator") = {"doc7_dataset"}
    /\ Touches("data_generator") = {"doc7_dataset"}
    /\ Touches("data_validator") = {"doc7_dataset"}
    /\ Touches("eda_phase2_sync") = {"doc2_eda"}
    /\ Makes("m3_notebook_generator") = NotebookCode
    /\ Touches("m3_notebook_generator") = NotebookCode
    /\ Touches("m3_notebook_executor") = NotebookCode \cup Optional
    /\ Touches("m3_notebook_questions_generator") = NotebookCode \cup Optional
    /\ Makes("synthesis_phase2_sync") = {"doc3_teaching_note"}
    /\ Touches("synthesis_phase2_sync") = {"doc3_teaching_note"}
  BY DEF Makes, Touches, RequiredOutput

LEMMA NotebookNodesAdvance ==
    ASSUME OrderInv,
           \/ m3_notebook_generator \/ m3_notebook_executor
           \/ m3_notebook_questions_generator
    PROVE  \E n : Advances(n) /\ Itself(n)
  <1>0. next \in [Channels -> Values]
    BY DEF OrderInv, TypeOK
  <1>1. ASSUME m3_notebook_generator PROVE Advances("m3_notebook_generator")
    <2>1. Runs("m3_notebook_generator")
      BY <1>1 DEF m3_notebook_generator, Wrapped
    <2>2. CASE checkpoint_has_node_output("m3_notebook_generator")
      <3>1. UNCHANGED next
        BY <1>1, <2>2 DEF m3_notebook_generator, Wrapped, WritesNothing
      <3>2. IsDecided(sub["m3_notebook_code"])
        BY <2>2, RequiredOf, UsableIsDecided DEF checkpoint_has_node_output
      <3> QED
        BY <2>1, <3>1, <3>2, TrioChannels, OtherMakes, SkipAdvances
           DEF NotebookCode, Trio
    <2>3. CASE ~checkpoint_has_node_output("m3_notebook_generator") /\ HasNotebook
      <3>1. Yields("m3_notebook_code", {"placeholder"}, 0)
        BY <1>1, <2>3 DEF m3_notebook_generator, Wrapped
      <3>2. /\ Makes("m3_notebook_generator") \subseteq {"m3_notebook_code"}
            /\ "m3_notebook_code" \in Touches("m3_notebook_generator")
            /\ "m3_notebook_code" \in Channels
        BY <2>3, TrioChannels, OtherMakes DEF NotebookCode, Trio
      <3>3. "absent" \notin {"placeholder"}
        OBVIOUS
      <3> QED
        BY <2>1, <3>1, <3>2, <3>3, YieldsAdvances
    <2>4. CASE ~checkpoint_has_node_output("m3_notebook_generator") /\ ~HasNotebook
      <3>1. UNCHANGED next
        BY <1>1, <2>4 DEF m3_notebook_generator, Wrapped, WritesNothing
      <3> QED
        BY <2>1, <2>4, <3>1, OtherMakes, SkipAdvances DEF NotebookCode
    <2> QED
      BY <2>2, <2>3, <2>4
  <1>2. ASSUME m3_notebook_executor PROVE Advances("m3_notebook_executor")
    <2>1. Runs("m3_notebook_executor")
      BY <1>2 DEF m3_notebook_executor, Wrapped
    <2>2. CASE UNCHANGED next
      BY <2>1, <2>2, OtherMakes, SkipAdvances
    <2>3. CASE IsExecuted /\ m3_notebook_execution
      <3>1. {"m3_notebook_code", "m3_metrics_summary"}
              \subseteq Touches("m3_notebook_executor")
        BY <2>3, OtherMakes
           DEF NotebookCode, Optional, HasNotebook, IsExecuted
      <3>2. CASE \E corrected \in BOOLEAN, kind \in {"good", "empty"} :
                   next' = [next EXCEPT
                     !["m3_metrics_summary"] =
                        Value(kind, sub["doc7_dataset"].of),
                     !["m3_notebook_code"] =
                        IF corrected THEN Value("good", 0) ELSE @]
        <4>1. /\ IsDecided(next'["m3_metrics_summary"])
              /\ \/ IsDecided(next'["m3_notebook_code"])
                 \/ next'["m3_notebook_code"] = next["m3_notebook_code"]
              /\ \A c \in Channels \ {"m3_metrics_summary",
                                      "m3_notebook_code"} :
                   next'[c] = next[c]
          BY <1>0, <3>2, TrioChannels DEF Value, IsDecided, Trio
        <4> QED
          BY <2>1, <3>1, <4>1, OtherMakes DEF Advances
      <3>3. CASE next' = [next EXCEPT
                            !["m3_notebook_code"] = Value("placeholder", 0)]
        <4>1. "m3_notebook_code" \in Channels /\ "placeholder" # "absent"
          BY TrioChannels DEF Trio
        <4> QED
          BY <2>1, <3>1, <3>3, <4>1, OtherMakes, WriteAdvances
      <3> QED
        BY <2>3, <3>2, <3>3 DEF m3_notebook_execution
    <2> QED
      BY <1>2, <2>2, <2>3 DEF m3_notebook_executor, Wrapped, WritesNothing
  <1>3. ASSUME m3_notebook_questions_generator
        PROVE  Advances("m3_notebook_questions_generator")
    <2>1. Runs("m3_notebook_questions_generator")
      BY <1>3 DEF m3_notebook_questions_generator, Wrapped
    <2>2. CASE UNCHANGED next
      BY <2>1, <2>2, OtherMakes, SkipAdvances
    <2>3. CASE /\ IsExecuted
               /\ Yields("m3_notebook_questions", {"empty"},
                         sub["m3_metrics_summary"].of)
      <3>1. /\ "m3_notebook_questions"
                 \in Touches("m3_notebook_questions_generator")
            /\ Makes("m3_notebook_questions_generator")
                 \subseteq {"m3_notebook_questions"}
            /\ "m3_notebook_questions" \in Channels
            /\ "absent" \notin {"empty"}
        BY <2>3, OtherMakes, TrioChannels DEF Optional, Trio
      <3> QED
        BY <2>1, <2>3, <3>1, YieldsAdvances
    <2> QED
      BY <1>3, <2>2, <2>3
         DEF m3_notebook_questions_generator, Wrapped, WritesNothing
  <1> QED
    BY <1>1, <1>2, <1>3 DEF Itself

LEMMA DatasetNodesAdvance ==
    ASSUME OrderInv, schema_designer \/ data_generator \/ data_validator
    PROVE  \E n : Advances(n) /\ Itself(n)
  <1>0. Rows \subseteq Channels
    BY DEF Rows, Channels
  <1>1. ASSUME schema_designer PROVE Advances("schema_designer")
    <2>1. /\ Runs("schema_designer")
          /\ Yields("dataset_schema", {"short", "faulty"}, Design)
      BY <1>1 DEF schema_designer, Wrapped, checkpoint_has_node_output,
                  RequiredOutput
    <2>2. "absent" \notin {"short", "faulty"}
      OBVIOUS
    <2> QED
      BY <1>0, <2>1, <2>2, OtherMakes, YieldsAdvances DEF Rows
  <1>2. ASSUME data_generator PROVE Advances("data_generator")
    <2> DEFINE kind == IF sub["dataset_schema"].kind = "faulty"
                       THEN "empty" ELSE sub["dataset_schema"].kind
    <2>1. /\ Runs("data_generator")
          /\ next' = [next EXCEPT !["doc7_dataset"] =
                        Value(kind, sub["dataset_schema"].of)]
      BY <1>2 DEF data_generator, Writes
    <2>2. "data_generator" \in frontier
      BY <2>1 DEF Runs, OrderInv, TypeOK
    <2>3. kind # "absent"
      <3>1. "dataset_schema" \in Earlier["data_generator"]
        BY DEF Earlier
      <3> QED
        BY <2>2, <3>1 DEF OrderInv, IsDecided
    <2> QED
      BY <1>0, <2>1, <2>3, OtherMakes, WriteAdvances DEF Rows
  <1>3. ASSUME data_validator PROVE Advances("data_validator")
    <2>1. Runs("data_validator")
      BY <1>3 DEF data_validator
    <2>2. CASE UNCHANGED next
      BY <2>1, <2>2, OtherMakes, SkipAdvances
    <2>3. CASE next' = [next EXCEPT !["doc7_dataset"] = Value("empty", 0)]
      <3>1. "empty" # "absent"
        OBVIOUS
      <3> QED
        BY <1>0, <2>1, <2>3, <3>1, OtherMakes, WriteAdvances DEF Rows
    <2> QED
      BY <1>3, <2>2, <2>3 DEF data_validator
  <1> QED
    BY <1>1, <1>2, <1>3 DEF Itself

LEMMA ReportNodesAdvance ==
    ASSUME OrderInv, eda_text_analyst \/ eda_chart_generator \/ eda_phase2_sync
    PROVE  \E n : Advances(n) /\ Itself(n)
  <1>0. next \in [Channels -> Values]
    BY DEF OrderInv, TypeOK
  <1>1. {"eda_text_analyst", "eda_chart_generator"} \subseteq Plain
    BY DEF Plain, RequiredOutput
  <1>2. /\ "absent" \notin {"empty", "placeholder"} /\ "absent" \notin {"empty"}
        /\ "fallback" # "absent" /\ "empty" # "absent"
    OBVIOUS
  <1>3. ASSUME eda_text_analyst PROVE Advances("eda_text_analyst")
    <2>1. /\ Runs("eda_text_analyst")
          /\ \/ /\ checkpoint_has_node_output("eda_text_analyst")
                /\ UNCHANGED next
             \/ Yields("doc2_eda", {"empty", "placeholder"},
                       sub["doc7_dataset"].of)
             \/ Writes("doc2_eda", "fallback", 0)
      BY <1>3 DEF eda_text_analyst, Wrapped, WritesNothing
    <2> QED
      BY <1>1, <1>2, <2>1, RequiredOf, PlainAdvances
  <1>4. ASSUME eda_chart_generator PROVE Advances("eda_chart_generator")
    <2>1. /\ Runs("eda_chart_generator")
          /\ \/ /\ checkpoint_has_node_output("eda_chart_generator")
                /\ UNCHANGED next
             \/ Yields("doc2_eda_charts", {"empty"}, sub["doc7_dataset"].of)
             \/ Writes("doc2_eda_charts", "empty", 0)
      BY <1>4 DEF eda_chart_generator, Wrapped, WritesNothing
    <2> QED
      BY <1>1, <1>2, <2>1, RequiredOf, PlainAdvances
  <1>5. ASSUME eda_phase2_sync PROVE Advances("eda_phase2_sync")
    <2>1. Runs("eda_phase2_sync")
      BY <1>5 DEF eda_phase2_sync
    <2>2. CASE UNCHANGED next
      BY <2>1, <2>2, OtherMakes, SkipAdvances
    <2>3. CASE next' = [next EXCEPT !["doc2_eda"].edits = @ + 1]
      <3>1. "doc2_eda" \in Channels
        BY DEF Channels
      <3>2. next["doc2_eda"] \in Values
        BY <1>0, <3>1
      <3>3. next'["doc2_eda"].kind = next["doc2_eda"].kind
        BY <1>0, <2>3, <3>1, <3>2 DEF Values
      <3>4. \A c \in Channels \ {"doc2_eda"} : next'[c] = next[c]
        BY <1>0, <2>3
      <3> QED
        BY <2>1, <3>3, <3>4, OtherMakes DEF Advances, IsDecided
    <2> QED
      BY <1>5, <2>2, <2>3 DEF eda_phase2_sync
  <1> QED
    BY <1>3, <1>4, <1>5 DEF Itself

LEMMA EveryNodeAdvances ==
    ASSUME OrderInv, NodeRuns PROVE \E n : Advances(n) /\ Itself(n)
  <1>1. {"case_architect", "case_writer", "case_questions",
         "eda_questions_generator", "m3_content_generator",
         "m3_questions_generator", "m4_content_generator",
         "m4_questions_generator", "m4_chart_generator",
         "m5_content_generator", "m5_questions_generator",
         "teaching_note_part1", "teaching_note_part2"}
           \subseteq Plain \ RowNodes
    BY DEF Plain, RequiredOutput, RowNodes
  <1>2. "absent" \notin {"empty"} /\ "absent" \notin {"sentinel"}
    OBVIOUS
  <1>3. ASSUME \/ case_architect \/ case_writer \/ case_questions
               \/ eda_questions_generator
               \/ m3_content_generator \/ m3_questions_generator
               \/ m4_content_generator \/ m4_questions_generator
               \/ m4_chart_generator
               \/ m5_content_generator \/ m5_questions_generator
               \/ teaching_note_part1 \/ teaching_note_part2
        PROVE  \E n : Advances(n) /\ Itself(n)
    BY <1>1, <1>2, <1>3, GeneratesAdvances, OthersAreThemselves
       DEF case_architect, case_writer, case_questions,
           eda_questions_generator, m3_content_generator,
           m3_questions_generator, m4_content_generator,
           m4_questions_generator, m4_chart_generator, m5_content_generator,
           m5_questions_generator, teaching_note_part1, teaching_note_part2
  <1>4. ASSUME \/ doc1_complete \/ m3_sync \/ m4_sync
               \/ synthesis_phase1_sync
        PROVE  \E n : Advances(n) /\ Itself(n)
    BY <1>4, OtherMakes, SkipAdvances, OthersAreThemselves
       DEF doc1_complete, m3_sync, m4_sync, synthesis_phase1_sync,
           Barrier, WritesNothing, RowNodes
  <1>5. ASSUME synthesis_phase2_sync PROVE Advances("synthesis_phase2_sync")
    <2>1. "doc3_teaching_note" \in Channels /\ "good" # "absent"
      BY DEF Channels
    <2> QED
      BY <1>5, <2>1, OtherMakes, WriteAdvances
         DEF synthesis_phase2_sync, Writes
  <1>6. Itself("synthesis_phase2_sync")
    BY OthersAreThemselves DEF RowNodes
  <1> QED
    BY <1>3, <1>4, <1>5, <1>6, NotebookNodesAdvance, DatasetNodesAdvance,
       ReportNodesAdvance, Zenon
       DEF NodeRuns, Doc1, EDA, M3, M4, Synthesis

-----------------------------------------------------------------------------
(* From one superstep to the next, and to the end of the flow *)

Onward(f) ==
    /\ NextNodes # {} => NextNodes \in Steps[f]
    /\ \A n \in NextNodes : \A c \in Earlier[n] :
         \E m \in frontier : c \in Earlier[m] \/ c \in Makes(m)
    /\ NextNodes = {} =>
         \A c \in FlowMakes[f] :
           \E m \in frontier : c \in Earlier[m] \/ c \in Makes(m)

LEMMA Doc1Onward ==
    ASSUME frontier \in Steps["doc1_flow"] PROVE Onward("doc1_flow")
  <1>1. CASE frontier = {"case_architect"}
    <2>1. NextNodes = {"case_writer", "case_questions"}
      BY <1>1 DEF NextNodes, Successors, Edges
    <2> QED
      BY <1>1, <2>1
         DEF Onward, Steps, Earlier, FlowMakes, Makes, RequiredOutput, Rows
  <1>2. CASE frontier = {"case_writer", "case_questions"}
    <2>1. NextNodes = {"doc1_complete"}
      BY <1>2 DEF NextNodes, Successors, Edges
    <2> QED
      BY <1>2, <2>1
         DEF Onward, Steps, Earlier, FlowMakes, Makes, RequiredOutput, Rows
  <1>3. CASE frontier = {"doc1_complete"}
    <2>1. NextNodes = {}
      BY <1>3 DEF NextNodes, Successors, Edges
    <2> QED
      BY <1>3, <2>1
         DEF Onward, Steps, Earlier, FlowMakes, Makes, RequiredOutput, Rows
  <1> QED
    BY <1>1, <1>2, <1>3 DEF Steps

LEMMA EDAOnward ==
    ASSUME frontier \in Steps["eda_flow"] PROVE Onward("eda_flow")
  <1>1. CASE frontier = {"schema_designer"}
    <2>1. NextNodes = {"data_generator"}
      BY <1>1 DEF NextNodes, Successors, Edges
    <2> QED
      BY <1>1, <2>1
         DEF Onward, Steps, Earlier, FlowMakes, Makes, RequiredOutput, Rows
  <1>2. CASE frontier = {"data_generator"}
    <2>1. NextNodes = {"data_validator"}
      BY <1>2 DEF NextNodes, Successors, Edges
    <2> QED
      BY <1>2, <2>1
         DEF Onward, Steps, Earlier, FlowMakes, Makes, RequiredOutput, Rows
  <1>3. CASE frontier = {"data_validator"}
    <2>1. NextNodes \in {{"data_generator"}, {"eda_text_analyst"}}
      BY <1>3 DEF NextNodes, Successors, Edges
    <2> QED
      BY <1>3, <2>1
         DEF Onward, Steps, Earlier, FlowMakes, Makes, RequiredOutput, Rows
  <1>4. CASE frontier = {"eda_text_analyst"}
    <2>1. NextNodes = {"eda_chart_generator"}
      BY <1>4 DEF NextNodes, Successors, Edges
    <2> QED
      BY <1>4, <2>1
         DEF Onward, Steps, Earlier, FlowMakes, Makes, RequiredOutput, Rows
  <1>5. CASE frontier = {"eda_chart_generator"}
    <2>1. NextNodes = {"eda_questions_generator"}
      BY <1>5 DEF NextNodes, Successors, Edges
    <2> QED
      BY <1>5, <2>1
         DEF Onward, Steps, Earlier, FlowMakes, Makes, RequiredOutput, Rows
  <1>6. CASE frontier = {"eda_questions_generator"}
    <2>1. NextNodes = {"eda_phase2_sync"}
      BY <1>6 DEF NextNodes, Successors, Edges
    <2> QED
      BY <1>6, <2>1
         DEF Onward, Steps, Earlier, FlowMakes, Makes, RequiredOutput, Rows
  <1>7. CASE frontier = {"eda_phase2_sync"}
    <2>1. NextNodes = {}
      BY <1>7 DEF NextNodes, Successors, Edges
    <2> QED
      BY <1>7, <2>1
         DEF Onward, Steps, Earlier, FlowMakes, Makes, RequiredOutput, Rows
  <1> QED
    BY <1>1, <1>2, <1>3, <1>4, <1>5, <1>6, <1>7 DEF Steps

LEMMA M3Onward ==
    ASSUME frontier \in Steps["m3_flow"] PROVE Onward("m3_flow")
  <1>1. CASE frontier = {"m3_content_generator"}
    <2>1. NextNodes = {"m3_questions_generator", "m3_notebook_generator"}
      BY <1>1 DEF NextNodes, Successors, Edges
    <2> QED
      BY <1>1, <2>1
         DEF Onward, Steps, Earlier, FlowMakes, Makes, RequiredOutput, Rows
  <1>2. CASE frontier = {"m3_questions_generator", "m3_notebook_generator"}
    <2>1. NextNodes = {"m3_sync", "m3_notebook_executor"}
      BY <1>2 DEF NextNodes, Successors, Edges
    <2> QED
      BY <1>2, <2>1
         DEF Onward, Steps, Earlier, FlowMakes, Makes, RequiredOutput, Rows
  <1>3. CASE frontier = {"m3_sync", "m3_notebook_executor"}
    <2>1. NextNodes = {"m3_notebook_questions_generator"}
      BY <1>3 DEF NextNodes, Successors, Edges
    <2> QED
      BY <1>3, <2>1
         DEF Onward, Steps, Earlier, FlowMakes, Makes, RequiredOutput, Rows
  <1>4. CASE frontier = {"m3_notebook_questions_generator"}
    <2>1. NextNodes = {"m3_sync"}
      BY <1>4 DEF NextNodes, Successors, Edges
    <2> QED
      BY <1>4, <2>1
         DEF Onward, Steps, Earlier, FlowMakes, Makes, RequiredOutput, Rows
  <1>5. CASE frontier = {"m3_sync"}
    <2>1. NextNodes = {}
      BY <1>5 DEF NextNodes, Successors, Edges
    <2> QED
      BY <1>5, <2>1
         DEF Onward, Steps, Earlier, FlowMakes, Makes, RequiredOutput, Rows
  <1> QED
    BY <1>1, <1>2, <1>3, <1>4, <1>5 DEF Steps

LEMMA M4Onward ==
    ASSUME frontier \in Steps["m4_flow"] PROVE Onward("m4_flow")
  <1>1. CASE frontier = {"m4_content_generator"}
    <2>1. NextNodes = {"m4_questions_generator", "m4_chart_generator"}
      BY <1>1 DEF NextNodes, Successors, Edges
    <2> QED
      BY <1>1, <2>1
         DEF Onward, Steps, Earlier, FlowMakes, Makes, RequiredOutput, Rows
  <1>2. CASE frontier = {"m4_questions_generator", "m4_chart_generator"}
    <2>1. NextNodes = {"m4_sync"}
      BY <1>2 DEF NextNodes, Successors, Edges
    <2> QED
      BY <1>2, <2>1
         DEF Onward, Steps, Earlier, FlowMakes, Makes, RequiredOutput, Rows
  <1>3. CASE frontier = {"m4_sync"}
    <2>1. NextNodes = {}
      BY <1>3 DEF NextNodes, Successors, Edges
    <2> QED
      BY <1>3, <2>1
         DEF Onward, Steps, Earlier, FlowMakes, Makes, RequiredOutput, Rows
  <1> QED
    BY <1>1, <1>2, <1>3 DEF Steps

LEMMA SynthesisOnward ==
    ASSUME frontier \in Steps["synthesis_flow"] PROVE Onward("synthesis_flow")
  <1>1. CASE frontier = {"m5_content_generator", "teaching_note_part1"}
    <2>1. NextNodes = {"synthesis_phase1_sync"}
      BY <1>1 DEF NextNodes, Successors, Edges
    <2> QED
      BY <1>1, <2>1
         DEF Onward, Steps, Earlier, FlowMakes, Makes, RequiredOutput, Rows
  <1>2. CASE frontier = {"synthesis_phase1_sync"}
    <2>1. NextNodes = {"m5_questions_generator"}
      BY <1>2 DEF NextNodes, Successors, Edges
    <2> QED
      BY <1>2, <2>1
         DEF Onward, Steps, Earlier, FlowMakes, Makes, RequiredOutput, Rows
  <1>3. CASE frontier = {"m5_questions_generator"}
    <2>1. NextNodes = {"teaching_note_part2"}
      BY <1>3 DEF NextNodes, Successors, Edges
    <2> QED
      BY <1>3, <2>1
         DEF Onward, Steps, Earlier, FlowMakes, Makes, RequiredOutput, Rows
  <1>4. CASE frontier = {"teaching_note_part2"}
    <2>1. NextNodes = {"synthesis_phase2_sync"}
      BY <1>4 DEF NextNodes, Successors, Edges
    <2> QED
      BY <1>4, <2>1
         DEF Onward, Steps, Earlier, FlowMakes, Makes, RequiredOutput, Rows
  <1>5. CASE frontier = {"synthesis_phase2_sync"}
    <2>1. NextNodes = {}
      BY <1>5 DEF NextNodes, Successors, Edges
    <2> QED
      BY <1>5, <2>1
         DEF Onward, Steps, Earlier, FlowMakes, Makes, RequiredOutput, Rows
  <1> QED
    BY <1>1, <1>2, <1>3, <1>4, <1>5 DEF Steps

LEMMA EveryFlowOnward ==
    ASSUME at \in Flows, frontier \in Steps[at] PROVE Onward(at)
  BY Doc1Onward, EDAOnward, M3Onward, M4Onward, SynthesisOnward
     DEF Flows, FlowStart

LEMMA StepsOfFlows ==
    \A f \in Flows : /\ Start(f) \in Steps[f]
                     /\ \A n \in Start(f) : Earlier[n] = {}
                     /\ \A F \in Steps[f] : F \subseteq Nodes
                     /\ FlowMakes[f] \subseteq Channels
  BY DEF Flows, FlowStart, Start, Steps, Earlier, Nodes, Edges, FlowMakes,
         Channels, Rows, NotebookCode

LEMMA NotAFlow ==
    \A m \in MasterNodes \ Flows : Start(m) = {}
  BY DEF Start

\* A node of a flow touches outputs of the route only.
LEMMA TouchesOnRoute ==
    ASSUME at \in Flows, at \in {"eda_flow", "m3_flow"} => HasEDA,
           frontier \in Steps[at], NEW n \in frontier
    PROVE  Touches(n) \subseteq OnRoute /\ Makes(n) \subseteq Channels
  <1> USE DEF OnRoute, Promised, Optional, Channels, Touches, Makes,
              RequiredOutput, Steps, NotebookCode
  <1>1. CASE at = "doc1_flow"
    BY <1>1
  <1>2. CASE at = "eda_flow"
    BY <1>2
  <1>3. CASE at = "m3_flow"
    BY <1>3
  <1>4. CASE at = "m4_flow"
    BY <1>4
  <1>5. CASE at = "synthesis_flow"
    BY <1>5
  <1> QED
    BY <1>1, <1>2, <1>3, <1>4, <1>5 DEF Flows, FlowStart

\* The master graph visits the flows of the route in order.
LEMMA RouteInOrder ==
    /\ \A f \in Flows :
         /\ After[f] \in MasterNodes
         /\ (f \in {"eda_flow", "m3_flow"} => HasEDA) =>
              FlowsBefore(After[f]) \subseteq FlowsBefore(f) \cup {f}
         /\ After[f] \in {"eda_flow", "m3_flow"} => f = "eda_flow"
    /\ FlowsBefore("doc1_flow") = {}
    /\ FlowsBefore("input_adapter") = {}
    /\ FlowsBefore(route_master) = FlowsBefore("output_adapter_intermediate")
    /\ route_master \in {"eda_flow", "m3_flow"} => HasEDA
    /\ \A m \in MasterNodes : FlowsBefore(m) \subseteq Flows
    /\ \A c \in Promised :
         \E f \in FlowsBefore("output_adapter_final") : c \in FlowMakes[f]
  BY DEF Flows, FlowStart, After, MasterNodes, FlowsBefore, Route,
         route_master, FlowMakes, Promised, Rows, NotebookCode, HasEDA,
         HasNotebook

LEMMA InitOrderInv == Init => OrderInv
  <1> SUFFICES ASSUME Init PROVE OrderInv
    OBVIOUS
  <1>1. at \notin Flows /\ frontier = {} /\ phase = "running"
    BY DEF Init, Flows, FlowStart
  <1>2. at = "input_adapter" /\ st = Nothing /\ sub = Nothing /\ next = Nothing
    BY DEF Init
  <1>3. \A c \in Channels : Nothing[c] = Absent
    BY DEF Nothing
  <1>4. OnRoute \subseteq Channels
    BY DEF OnRoute
  <1> QED
    BY <1>1, <1>2, <1>3, <1>4, InitTypeOK, RouteInOrder DEF OrderInv

\* The part of the invariant that a run brings to a master node with copies
\* of the checkpoint.
LEMMA EntersOrder ==
    ASSUME TypeOK', NEW m \in MasterNodes, Enters(m, st'), UNCHANGED form,
           m \in {"eda_flow", "m3_flow"} => HasEDA,
           \A f \in FlowsBefore(m) : \A c \in FlowMakes[f] : IsDecided(st'[c]),
           \A c \in Channels \ OnRoute : st'[c] = Absent,
           phase' = "done" =>
             out' = Content' /\ \A c \in Promised : IsDecided(st'[c])
    PROVE  OrderInv'
  <1>1. /\ at' = m /\ sub' = st' /\ next' = st'
        /\ frontier' = Start(m) /\ todo' = Start(m)
    BY DEF Enters
  <1>2. IF at' \in Flows THEN frontier' \in Steps[at'] ELSE frontier' = {}
    BY <1>1, StepsOfFlows, NotAFlow
  <1>3. \A n \in frontier' : Earlier[n] = {}
    BY <1>1, StepsOfFlows, NotAFlow
  <1>4. /\ HasEDA' = HasEDA /\ Promised' = Promised /\ OnRoute' = OnRoute
        /\ FlowsBefore(m)' = FlowsBefore(m) /\ FlowMakes' = FlowMakes
        /\ Earlier' = Earlier
    BY DEF HasEDA, HasNotebook, IsExecuted, Promised, Optional, OnRoute, FlowsBefore, Route,
           FlowMakes, Earlier, NotebookCode
  <1>5. \A f \in FlowsBefore(at)' : \A c \in FlowMakes'[f] : IsDecided(st'[c])
    BY <1>1, <1>4
  <1>6. \A n \in frontier' : \A c \in Earlier'[n] : IsDecided(sub'[c])
    BY <1>3, <1>4
  <1>7. frontier' \ todo' = {}
    BY <1>1
  <1> QED
    BY <1>1, <1>2, <1>4, <1>5, <1>6, <1>7 DEF OrderInv, IsDecided

\* A node that runs in its superstep.
LEMMA NodeKeepsOrder == ASSUME OrderInv, NodeRuns PROVE OrderInv'
  <1>1. PICK n : Advances(n)
    BY EveryNodeAdvances
  <1>2. /\ phase = "running" /\ n \in todo /\ todo' = todo \ {n}
        /\ UNCHANGED <<form, run, phase, at, st, sub, frontier, out>>
    BY <1>1 DEF Advances, Runs
  <1>3. TypeOK /\ TypeOK' /\ n \in frontier
    BY <1>2, NextTypeOK DEF OrderInv, TypeOK, Next, GraphStep
  <1>4. at \in Flows /\ frontier \in Steps[at]
    BY <1>3 DEF OrderInv
  <1>5. Touches(n) \subseteq OnRoute
    BY <1>3, <1>4, TouchesOnRoute DEF OrderInv
  <1>6. /\ HasEDA' = HasEDA /\ Promised' = Promised /\ OnRoute' = OnRoute
        /\ FlowsBefore(at)' = FlowsBefore(at) /\ FlowMakes' = FlowMakes
        /\ Earlier' = Earlier /\ \A m : Makes(m)' = Makes(m)
    BY <1>2
       DEF HasEDA, HasNotebook, IsExecuted, Promised, Optional, OnRoute,
           FlowsBefore, Route, FlowMakes, Earlier, NotebookCode, Makes
  <1>7. \A c \in Channels \ OnRoute : next'[c] = Absent
    BY <1>1, <1>5 DEF Advances, OrderInv
  <1>8. \A m \in frontier \ todo' : \A c \in Makes(m) : IsDecided(next'[c])
    <2>1. ASSUME NEW m \in frontier \ todo', NEW c \in Makes(m)
          PROVE  IsDecided(next'[c])
      <3>1. CASE m = n
        BY <1>1, <2>1, <3>1 DEF Advances
      <3>2. CASE m # n
        <4>1. m \in frontier \ todo
          BY <1>2, <2>1, <3>2
        <4>2. IsDecided(next[c])
          BY <2>1, <4>1 DEF OrderInv
        <4>3. c \in Channels
          BY <1>4, <2>1, TouchesOnRoute DEF OrderInv
        <4> QED
          BY <1>1, <4>2, <4>3 DEF Advances
      <3> QED
        BY <3>1, <3>2
    <2> QED
      BY <2>1
  <1>9. \A c \in Channels : IsDecided(sub[c]) => IsDecided(next'[c])
    BY <1>1 DEF OrderInv, Advances
  <1> QED
    BY <1>2, <1>3, <1>6, <1>7, <1>8, <1>9 DEF OrderInv, IsDecided

\* What a superstep that has ended leaves decided in next.
LEMMA SuperstepDecides ==
    ASSUME OrderInv, at \in Flows, todo = {}, NEW m \in frontier,
           NEW c, c \in Earlier[m] \/ c \in Makes(m), c \in Channels
    PROVE  IsDecided(next[c])
  BY DEF OrderInv

LEMMA EarlierChannels == \A n \in Nodes : Earlier[n] \subseteq Channels
  BY DEF Earlier, Channels, Nodes, Edges, Rows, NotebookCode

LEMMA SuperstepKeepsOrder == ASSUME OrderInv, Superstep PROVE OrderInv'
  <1>1. /\ phase = "running" /\ at \in Flows /\ todo = {} /\ NextNodes # {}
        /\ sub' = next /\ next' = next /\ st' = st
        /\ frontier' = NextNodes /\ todo' = NextNodes
        /\ UNCHANGED <<form, run, phase, at, out>>
    BY DEF Superstep
  <1>2. TypeOK /\ TypeOK'
    BY NextTypeOK DEF OrderInv, Next, GraphStep
  <1>3. Onward(at)
    BY <1>1, EveryFlowOnward DEF OrderInv
  <1>4. frontier' \in Steps[at]
    BY <1>1, <1>3 DEF Onward
  <1>5. \A n \in NextNodes : \A c \in Earlier[n] : IsDecided(next[c])
    <2>1. NextNodes \subseteq Nodes
      BY <1>2, NextNodesType DEF TypeOK
    <2> QED
      BY <1>1, <1>3, <2>1, EarlierChannels, SuperstepDecides DEF Onward
  <1>6. /\ HasEDA' = HasEDA /\ Promised' = Promised /\ OnRoute' = OnRoute
        /\ FlowsBefore(at)' = FlowsBefore(at) /\ FlowMakes' = FlowMakes
        /\ Earlier' = Earlier
    BY <1>1
       DEF HasEDA, HasNotebook, IsExecuted, Promised, Optional, OnRoute,
           FlowsBefore, Route, FlowMakes, Earlier, NotebookCode
  <1>7. frontier' \ todo' = {}
    BY <1>1
  <1> QED
    BY <1>1, <1>2, <1>4, <1>5, <1>6, <1>7 DEF OrderInv, IsDecided

LEMMA FlowEndKeepsOrder == ASSUME OrderInv, FlowEnd PROVE OrderInv'
  <1>1. /\ phase = "running" /\ at \in Flows /\ todo = {} /\ NextNodes = {}
        /\ st' = next /\ Enters(After[at], st') /\ phase' = phase
        /\ form' = form
    BY DEF FlowEnd
  <1>2. TypeOK'
    BY NextTypeOK DEF OrderInv, Next, GraphStep
  <1>3. Onward(at)
    BY <1>1, EveryFlowOnward DEF OrderInv
  <1>4. \A c \in FlowMakes[at] : IsDecided(next[c])
    BY <1>1, <1>3, StepsOfFlows, SuperstepDecides DEF Onward
  <1>5. \A f \in FlowsBefore(at) : \A c \in FlowMakes[f] : IsDecided(next[c])
    <2>1. FlowsBefore(at) \subseteq Flows
      BY RouteInOrder DEF OrderInv, TypeOK
    <2>2. ASSUME NEW f \in FlowsBefore(at), NEW c \in FlowMakes[f]
          PROVE  IsDecided(next[c])
      <3>1. c \in Channels
        BY <2>1, <2>2, StepsOfFlows
      <3>2. IsDecided(st[c])
        BY <2>2 DEF OrderInv
      <3> QED
        BY <3>1, <3>2 DEF OrderInv
    <2> QED
      BY <2>2
  <1>6. FlowsBefore(After[at]) \subseteq FlowsBefore(at) \cup {at}
    BY <1>1, RouteInOrder DEF OrderInv
  <1>7. \A f \in FlowsBefore(After[at]) : \A c \in FlowMakes[f] :
          IsDecided(st'[c])
    BY <1>1, <1>4, <1>5, <1>6
  <1>8. After[at] \in {"eda_flow", "m3_flow"} => HasEDA
    BY <1>1, RouteInOrder DEF OrderInv
  <1>9. \A c \in Channels \ OnRoute : st'[c] = Absent
    BY <1>1 DEF OrderInv
  <1>10. After[at] \in MasterNodes /\ phase' # "done"
    BY <1>1, RouteInOrder
  <1> QED
    BY <1>1, <1>2, <1>7, <1>8, <1>9, <1>10, EntersOrder

LEMMA NextOrderInv == OrderInv /\ [Next]_vars => OrderInv'
  <1> SUFFICES ASSUME OrderInv, [Next]_vars PROVE OrderInv'
    OBVIOUS
  <1>0. TypeOK /\ TypeOK'
    BY NextTypeOK DEF OrderInv
  <1>1. CASE NodeRuns
    BY <1>1, NodeKeepsOrder
  <1>2. CASE Superstep
    BY <1>2, SuperstepKeepsOrder
  <1>3. CASE FlowEnd
    BY <1>3, FlowEndKeepsOrder
  <1>4. CASE input_adapter
    <2>1. /\ Enters("doc1_flow", st') /\ st' = st /\ form' = form
          /\ phase' # "done"
      BY <1>4 DEF input_adapter
    <2>2. "doc1_flow" \notin {"eda_flow", "m3_flow"}
      OBVIOUS
    <2> QED
      BY <1>0, <2>1, <2>2, FlowTypes, RouteInOrder, EntersOrder DEF OrderInv
  <1>5. CASE output_adapter_intermediate
    <2>1. /\ Enters(route_master, st') /\ st' = st /\ form' = form
          /\ phase' # "done" /\ at = "output_adapter_intermediate"
      BY <1>5 DEF output_adapter_intermediate
    <2> QED
      BY <1>0, <2>1, RouteType, RouteInOrder, EntersOrder DEF OrderInv
  <1>6. CASE output_adapter_final
    <2>1. /\ Enters("input_adapter", st') /\ st' = st /\ form' = form
          /\ out' = Content /\ at = "output_adapter_final"
      BY <1>6 DEF output_adapter_final, Halts
    <2>2. \A c \in Promised : IsDecided(st'[c])
      BY <2>1, RouteInOrder DEF OrderInv
    <2>3. Content' = Content
      BY <2>1 DEF Content
    <2>4. "input_adapter" \notin {"eda_flow", "m3_flow"}
      OBVIOUS
    <2> QED
      BY <1>0, <2>1, <2>2, <2>3, <2>4, FlowTypes, RouteInOrder, EntersOrder
         DEF OrderInv
  <1>7. CASE RunFails \/ RunIsCut
    <2>1. /\ Enters("input_adapter", st') /\ st' = st /\ form' = form
          /\ phase' # "done"
      BY <1>7 DEF RunFails, RunIsCut, Halts
    <2>2. "input_adapter" \notin {"eda_flow", "m3_flow"}
      OBVIOUS
    <2> QED
      BY <1>0, <2>1, <2>2, FlowTypes, RouteInOrder, EntersOrder DEF OrderInv
  <1>8. CASE RunResumes \/ UNCHANGED vars
    <2>1. /\ UNCHANGED <<form, at, st, sub, next, frontier, todo, out>>
          /\ phase' = "done" => phase = "done"
      BY <1>8 DEF RunResumes, vars, graph
    <2>2. /\ HasEDA' = HasEDA /\ Promised' = Promised /\ OnRoute' = OnRoute
          /\ FlowsBefore(at)' = FlowsBefore(at) /\ FlowMakes' = FlowMakes
          /\ Earlier' = Earlier /\ \A m : Makes(m)' = Makes(m)
          /\ Content' = Content
      BY <2>1
         DEF HasEDA, HasNotebook, IsExecuted, Promised, Optional, OnRoute,
             FlowsBefore, Route, FlowMakes, Earlier, NotebookCode, Makes,
             Content
    <2> QED
      BY <1>0, <2>1, <2>2 DEF OrderInv, IsDecided
  <1> QED
    BY <1>1, <1>2, <1>3, <1>4, <1>5, <1>6, <1>7, <1>8 DEF Next, GraphStep

LEMMA OrderInvHolds == Spec => []OrderInv
  BY InitOrderInv, NextOrderInv, PTL DEF Spec

\* What a node reads was made earlier in its flow or by a flow before it.
LEMMA ReadsAreMade ==
    ASSUME at \in Flows, at \in {"eda_flow", "m3_flow"} => HasEDA,
           frontier \in Steps[at], NEW n \in frontier, NEW c \in Reads(n)
    PROVE  /\ c \in Channels
           /\ \/ c \in Earlier[n]
              \/ \E f \in FlowsBefore(at) : c \in FlowMakes[f]
  <1> USE DEF Reads, Earlier, FlowsBefore, Route, FlowMakes, Steps, Rows,
              NotebookCode, Channels
  <1>1. CASE at = "doc1_flow"
    BY <1>1
  <1>2. CASE at = "eda_flow"
    BY <1>2
  <1>3. CASE at = "m3_flow"
    BY <1>3
  <1>4. CASE at = "m4_flow"
    BY <1>4
  <1>5. CASE at = "synthesis_flow"
    BY <1>5
  <1> QED
    BY <1>1, <1>2, <1>3, <1>4, <1>5 DEF Flows, FlowStart

\* On every route, with any forms and bounds and after any number of
\* resumes, a node runs when each output it builds on has been made or has
\* visibly failed (InputsDecided).
THEOREM OrderOfNodes == Spec => []InputsDecided
  <1>1. ASSUME OrderInv PROVE InputsDecided
    <2>1. ASSUME NEW n \in todo, NEW c \in Reads(n) PROVE Decided(c)
      <3>1. n \in frontier
        BY <1>1 DEF OrderInv, TypeOK
      <3>2. at \in Flows /\ frontier \in Steps[at]
        BY <1>1, <3>1 DEF OrderInv
      <3>3. /\ c \in Channels
            /\ \/ c \in Earlier[n]
               \/ \E f \in FlowsBefore(at) : c \in FlowMakes[f]
        BY <1>1, <2>1, <3>1, <3>2, ReadsAreMade DEF OrderInv
      <3> QED
        BY <1>1, <3>1, <3>3 DEF OrderInv, Decided, IsDecided
    <2> QED
      BY <2>1 DEF InputsDecided
  <1> QED
    BY <1>1, OrderInvHolds, PTL

\* A finished case has an entry for every output of its route and none of the
\* others, and its canonical output is made of the final channels
\* (FinishedIsComplete).
THEOREM FinishedCases == Spec => []FinishedIsComplete
  <1>1. OrderInv => FinishedIsComplete
    BY DEF OrderInv, FinishedIsComplete, IsDecided, OnRoute
  <1> QED
    BY <1>1, OrderInvHolds, PTL

-----------------------------------------------------------------------------
(* What speaks of the rows *)

Agree(x) == \A c \in DatasetDependents :
              /\ x[c].kind = "good"
              /\ x[c].run = x["doc7_dataset"].run
              => x[c].of = x["doc7_dataset"].of
NotAfter(x) == \A c \in DatasetDependents : x[c].run <= run
OfEarlierRuns(x) == \A c \in DatasetDependents : x[c].run < run

\* A run in which nothing has been said of its rows yet.
MakesRows == {"schema_designer", "data_generator", "data_validator"}
BeforeRows ==
    \/ at \in {"input_adapter", "doc1_flow", "output_adapter_intermediate"}
    \/ frontier \cap MakesRows # {}

AgreeInv ==
    /\ OrderInv
    /\ Agree(st) /\ Agree(sub) /\ Agree(next)
    /\ NotAfter(st) /\ NotAfter(sub) /\ NotAfter(next)
    /\ phase = "running" /\ BeforeRows =>
         OfEarlierRuns(st) /\ OfEarlierRuns(sub) /\ OfEarlierRuns(next)
    /\ frontier \cap MakesRows = {} =>
         next["doc7_dataset"] = sub["doc7_dataset"]

\* Made by the same run, of the same rows, and good or not.
SameStamp(v, w) == v.kind = w.kind /\ v.run = w.run /\ v.of = w.of

\* A node writes the rows, or something on the rows it reads, or neither.
Speaks(n) ==
    \A c \in DatasetDependents :
      \/ SameStamp(next'[c], next[c])
      \/ /\ n \in RowNodes \ MakesRows
         /\ next'[c].run = run
         /\ next'[c].kind = "good" => next'[c].of = sub["doc7_dataset"].of
KeepsRows(n) ==
    \/ next'["doc7_dataset"] = next["doc7_dataset"]
    \/ n \in MakesRows /\ next'["doc7_dataset"].run = run

LEMMA Dependents ==
    DatasetDependents \cup {"doc7_dataset"} \subseteq Channels
  BY DEF DatasetDependents, Channels

LEMMA UntouchedRows ==
    ASSUME NEW n, n \notin RowNodes
    PROVE  Touches(n) \cap (DatasetDependents \cup {"doc7_dataset"}) = {}
           \/ n = "m3_notebook_questions_generator"
  BY DEF RowNodes, Touches, Makes, DatasetDependents, RequiredOutput,
         NotebookCode

LEMMA QuestionsLeaveRows ==
    ASSUME TypeOK, m3_notebook_questions_generator
    PROVE  \A c \in DatasetDependents \cup {"doc7_dataset"} : next'[c] = next[c]
  <1>1. next \in [Channels -> Values]
    BY DEF TypeOK
  <1>2. "m3_notebook_questions" \notin DatasetDependents \cup {"doc7_dataset"}
    BY DEF DatasetDependents
  <1> QED
    BY <1>1, <1>2, Dependents
       DEF m3_notebook_questions_generator, Wrapped, Yields, WritesNothing

LEMMA NodesSpeak ==
    ASSUME OrderInv, NodeRuns
    PROVE  \E n : Runs(n) /\ Speaks(n) /\ KeepsRows(n)
  <1> DEFINE rows == sub["doc7_dataset"]
  <1>0. TypeOK /\ next \in [Channels -> Values]
    BY DEF OrderInv, TypeOK
  <1>1. PICK n : Advances(n) /\ Itself(n)
    BY EveryNodeAdvances
  <1>2. Runs(n)
    BY <1>1 DEF Advances
  <1>3. ASSUME \A c \in DatasetDependents \cup {"doc7_dataset"} :
                 next'[c] = next[c]
        PROVE  Speaks(n) /\ KeepsRows(n)
    BY <1>3 DEF Speaks, KeepsRows, SameStamp
  <1>4. CASE n = "m3_notebook_questions_generator"
    <2>1. m3_notebook_questions_generator
      BY <1>1, <1>4 DEF Itself
    <2>2. \A c \in DatasetDependents \cup {"doc7_dataset"} :
            next'[c] = next[c]
      BY <1>0, <2>1, QuestionsLeaveRows
    <2> QED
      BY <1>2, <1>3, <2>2
  <1>5. CASE n \notin RowNodes /\ n # "m3_notebook_questions_generator"
    BY <1>1, <1>2, <1>3, <1>5, UntouchedRows, Dependents DEF Advances
  <1>6. ASSUME NEW c \in DatasetDependents, NEW kind, NEW design,
               next' = [next EXCEPT ![c] = Value(kind, design)],
               n \in RowNodes \ MakesRows,
               kind = "good" => design = rows.of
        PROVE  Speaks(n) /\ KeepsRows(n)
    <2>1. next'[c] = Value(kind, design)
      BY <1>0, <1>6, Dependents
    <2>2. \A d \in (DatasetDependents \cup {"doc7_dataset"}) \ {c} :
            next'[d] = next[d]
      BY <1>0, <1>6, Dependents
    <2>3. "doc7_dataset" # c
      BY <1>6 DEF DatasetDependents
    <2> QED
      BY <1>6, <2>1, <2>2, <2>3 DEF Speaks, KeepsRows, SameStamp, Value
  <1>7. ASSUME NEW kind, NEW design, n \in MakesRows,
               next' = [next EXCEPT !["doc7_dataset"] = Value(kind, design)]
        PROVE  Speaks(n) /\ KeepsRows(n)
    <2>1. next'["doc7_dataset"].run = run
      BY <1>0, <1>7, Dependents DEF Value
    <2>2. "doc7_dataset" \notin DatasetDependents
      BY DEF DatasetDependents
    <2>3. \A d \in DatasetDependents : next'[d] = next[d]
      BY <1>0, <1>7, <2>2, Dependents
    <2> QED
      BY <1>7, <2>1, <2>3 DEF Speaks, KeepsRows, SameStamp
  <1>8. CASE n = "data_generator"
    <2>1. data_generator
      BY <1>1, <1>8 DEF Itself
    <2>2. n \in MakesRows
      BY <1>8 DEF MakesRows
    <2>3. \E kind, design :
            next' = [next EXCEPT !["doc7_dataset"] = Value(kind, design)]
      BY <2>1 DEF data_generator, Writes
    <2> QED
      BY <1>2, <1>7, <2>2, <2>3
  <1>9. CASE n = "data_validator"
    <2>1. data_validator
      BY <1>1, <1>9 DEF Itself
    <2> QED
      BY <1>2, <1>3, <1>7, <1>9, <2>1 DEF data_validator, MakesRows
  <1>10. CASE n = "eda_text_analyst"
    <2>1. eda_text_analyst
      BY <1>1, <1>10 DEF Itself
    <2>2. n \in RowNodes \ MakesRows /\ "doc2_eda" \in DatasetDependents
      BY <1>10 DEF RowNodes, MakesRows, DatasetDependents
    <2>3. CASE WritesNothing
      BY <1>2, <1>3, <2>3 DEF WritesNothing
    <2>4. CASE \/ Yields("doc2_eda", {"empty", "placeholder"}, rows.of)
               \/ Writes("doc2_eda", "fallback", 0)
      BY <1>2, <1>6, <2>2, <2>4 DEF Yields, Writes
    <2> QED
      BY <2>1, <2>3, <2>4 DEF eda_text_analyst, Wrapped
  <1>11. CASE n = "eda_chart_generator"
    <2>1. eda_chart_generator
      BY <1>1, <1>11 DEF Itself
    <2>2. n \in RowNodes \ MakesRows /\ "doc2_eda_charts" \in DatasetDependents
      BY <1>11 DEF RowNodes, MakesRows, DatasetDependents
    <2>3. CASE WritesNothing
      BY <1>2, <1>3, <2>3 DEF WritesNothing
    <2>4. CASE \/ Yields("doc2_eda_charts", {"empty"}, rows.of)
               \/ Writes("doc2_eda_charts", "empty", 0)
      BY <1>2, <1>6, <2>2, <2>4 DEF Yields, Writes
    <2> QED
      BY <2>1, <2>3, <2>4 DEF eda_chart_generator, Wrapped
  <1>12. CASE n = "eda_phase2_sync"
    <2>1. eda_phase2_sync
      BY <1>1, <1>12 DEF Itself
    <2>2. CASE next' = next
      BY <1>2, <1>3, <2>2
    <2>3. CASE next' = [next EXCEPT !["doc2_eda"].edits = @ + 1]
      <3>1. "doc2_eda" \in Channels /\ "doc2_eda" # "doc7_dataset"
        BY DEF Channels
      <3>2. next["doc2_eda"] \in Values
        BY <1>0, <3>1
      <3>3. SameStamp(next'["doc2_eda"], next["doc2_eda"])
        BY <1>0, <2>3, <3>1, <3>2 DEF Values, SameStamp
      <3>4. \A c \in Channels \ {"doc2_eda"} : next'[c] = next[c]
        BY <1>0, <2>3
      <3>5. \A c \in DatasetDependents : SameStamp(next'[c], next[c])
        BY <3>3, <3>4, Dependents DEF SameStamp
      <3> QED
        BY <1>2, <3>1, <3>4, <3>5, Dependents DEF Speaks, KeepsRows
    <2> QED
      BY <2>1, <2>2, <2>3 DEF eda_phase2_sync
  <1>13. CASE n = "m3_notebook_executor"
    <2>1. m3_notebook_executor
      BY <1>1, <1>13 DEF Itself
    <2>2. n \in RowNodes \ MakesRows
      BY <1>13 DEF RowNodes, MakesRows
    <2>3. CASE WritesNothing
      BY <1>2, <1>3, <2>3 DEF WritesNothing
    <2>4. /\ "m3_notebook_code" \notin DatasetDependents \cup {"doc7_dataset"}
          /\ "m3_metrics_summary" # "doc7_dataset"
      BY DEF DatasetDependents
    <2>5. CASE next' = [next EXCEPT
                          !["m3_notebook_code"] = Value("placeholder", 0)]
      BY <1>0, <1>2, <1>3, <2>4, <2>5, Dependents
    <2>6. CASE \E corrected \in BOOLEAN, kind \in {"good", "empty"} :
                 next' = [next EXCEPT
                   !["m3_metrics_summary"] = Value(kind, rows.of),
                   !["m3_notebook_code"] =
                      IF corrected THEN Value("good", 0) ELSE @]
      <3>1. PICK corrected \in BOOLEAN, kind \in {"good", "empty"} :
                 next' = [next EXCEPT
                   !["m3_metrics_summary"] = Value(kind, rows.of),
                   !["m3_notebook_code"] =
                      IF corrected THEN Value("good", 0) ELSE @]
        BY <2>6
      <3>2. /\ next'["m3_metrics_summary"] = Value(kind, rows.of)
            /\ \A d \in (DatasetDependents \cup {"doc7_dataset"})
                          \ {"m3_metrics_summary"} : next'[d] = next[d]
        BY <1>0, <2>4, <3>1, Dependents, TrioChannels DEF Trio
      <3> QED
        BY <1>2, <2>2, <2>4, <3>2 DEF Speaks, KeepsRows, SameStamp, Value
    <2> QED
      BY <2>1, <2>3, <2>5, <2>6
         DEF m3_notebook_executor, Wrapped, m3_notebook_execution
  <1> QED
    BY <1>4, <1>5, <1>8, <1>9, <1>10, <1>11, <1>12, <1>13 DEF RowNodes

\* A superstep makes rows alone, before anything is said of them.
LEMMA RowStepsAlone ==
    ASSUME OrderInv, NEW n \in frontier
    PROVE  /\ n \in MakesRows => frontier = {n}
           /\ BeforeRows => n \notin RowNodes \ MakesRows
  <1>1. at \in Flows /\ frontier \in Steps[at]
    BY DEF OrderInv
  <1> USE DEF Steps, MakesRows, RowNodes, BeforeRows
  <1>2. CASE at = "doc1_flow"
    BY <1>1, <1>2
  <1>3. CASE at = "eda_flow"
    BY <1>1, <1>3
  <1>4. CASE at = "m3_flow"
    BY <1>1, <1>4
  <1>5. CASE at = "m4_flow"
    BY <1>1, <1>5
  <1>6. CASE at = "synthesis_flow"
    BY <1>1, <1>6
  <1> QED
    BY <1>1, <1>2, <1>3, <1>4, <1>5, <1>6 DEF Flows, FlowStart

LEMMA NodeKeepsAgree == ASSUME AgreeInv, NodeRuns PROVE AgreeInv'
  <1>0. OrderInv /\ OrderInv' /\ TypeOK
    BY NextOrderInv DEF AgreeInv, OrderInv, Next, GraphStep
  <1>1. PICK n : Runs(n) /\ Speaks(n) /\ KeepsRows(n)
    BY <1>0, NodesSpeak
  <1>2. /\ phase = "running" /\ n \in todo
        /\ UNCHANGED <<form, run, phase, at, st, sub, frontier, out>>
    BY <1>1 DEF Runs
  <1>3. n \in frontier
    BY <1>0, <1>2 DEF TypeOK
  <1>4. run \in Nat
    BY <1>0, RunsAssumption DEF TypeOK
  <1>5. CASE n \in MakesRows
    <2>1. BeforeRows /\ frontier \cap MakesRows # {}
      BY <1>3, <1>5 DEF BeforeRows
    <2>2. \A c \in DatasetDependents : SameStamp(next'[c], next[c])
      BY <1>1, <1>5 DEF Speaks
    <2>3. OfEarlierRuns(next)'
      BY <1>2, <2>1, <2>2 DEF AgreeInv, OfEarlierRuns, SameStamp
    <2>4. NotAfter(next)'
      BY <1>2, <2>2 DEF AgreeInv, NotAfter, SameStamp
    <2>5. Agree(next')
      <3>1. CASE next'["doc7_dataset"] = next["doc7_dataset"]
        BY <2>2, <3>1 DEF AgreeInv, Agree, SameStamp
      <3>2. CASE next'["doc7_dataset"].run = run
        <4>1. \A c \in DatasetDependents : next'[c].run < run
          BY <1>2, <2>3 DEF OfEarlierRuns
        <4>2. \A c \in DatasetDependents : next'[c].run \in 0 .. MaxRuns
          BY <1>0, Dependents DEF OrderInv, TypeOK, Values
        <4>3. \A c \in DatasetDependents : next'[c].run # run
          BY <1>4, <4>1, <4>2
        <4> QED
          BY <3>2, <4>3 DEF Agree
      <3> QED
        BY <1>1, <3>1, <3>2 DEF KeepsRows
    <2> QED
      BY <1>0, <1>2, <2>1, <2>3, <2>4, <2>5
         DEF AgreeInv, Agree, NotAfter, OfEarlierRuns, BeforeRows
  <1>6. CASE n \notin MakesRows
    <2>1. next'["doc7_dataset"] = next["doc7_dataset"]
      BY <1>1, <1>6 DEF KeepsRows
    <2>2. CASE n \in RowNodes
      <3>1. ~BeforeRows
        BY <1>0, <1>3, <1>6, <2>2, RowStepsAlone
      <3>2. next["doc7_dataset"] = sub["doc7_dataset"]
        BY <3>1 DEF AgreeInv, BeforeRows
      <3>3. Agree(next')
        BY <1>1, <2>1, <3>2 DEF AgreeInv, Agree, Speaks, SameStamp
      <3>4. NotAfter(next)'
        BY <1>1, <1>2, <1>4 DEF AgreeInv, NotAfter, Speaks, SameStamp
      <3> QED
        BY <1>0, <1>2, <2>1, <3>1, <3>3, <3>4
           DEF AgreeInv, Agree, NotAfter, BeforeRows
    <2>3. CASE n \notin RowNodes
      <3>1. \A c \in DatasetDependents : SameStamp(next'[c], next[c])
        BY <1>1, <2>3 DEF Speaks
      <3>2. Agree(next') /\ NotAfter(next)'
        BY <1>2, <2>1, <3>1 DEF AgreeInv, Agree, NotAfter, SameStamp
      <3>3. phase = "running" /\ BeforeRows => OfEarlierRuns(next)'
        BY <1>2, <3>1 DEF AgreeInv, OfEarlierRuns, SameStamp
      <3> QED
        BY <1>0, <1>2, <2>1, <3>2, <3>3
           DEF AgreeInv, Agree, NotAfter, OfEarlierRuns, BeforeRows
    <2> QED
      BY <2>2, <2>3
  <1> QED
    BY <1>5, <1>6

LEMMA RowEdges ==
    \A n \in Nodes : Successors(n) \cap MakesRows # {} => n \in MakesRows
  BY DEF Successors, Nodes, Edges, MakesRows

\* A run that goes on to another master node.
LEMMA EntersAgree ==
    ASSUME OrderInv', NEW m \in MasterNodes, Enters(m, st'), run' = run,
           Agree(st'), NotAfter(st)',
           /\ phase' = "running"
           /\ \/ m \in {"input_adapter", "doc1_flow",
                        "output_adapter_intermediate"}
              \/ Start(m) \cap MakesRows # {}
           => OfEarlierRuns(st)'
    PROVE  AgreeInv'
  <1>1. at' = m /\ sub' = st' /\ next' = st' /\ frontier' = Start(m)
    BY DEF Enters
  <1>2. phase' = "running" /\ BeforeRows' => OfEarlierRuns(st)'
    BY <1>1 DEF BeforeRows
  <1> QED
    BY <1>1, <1>2 DEF AgreeInv, Agree, NotAfter, OfEarlierRuns

LEMMA RowStarts ==
    /\ \A m \in MasterNodes : Start(m) \cap MakesRows # {} => m = "eda_flow"
    /\ \A f \in Flows :
         /\ After[f] \in MasterNodes
         /\ After[f] = "output_adapter_intermediate" => f = "doc1_flow"
         /\ After[f] \notin {"input_adapter", "doc1_flow", "eda_flow"}
  BY DEF Start, Flows, FlowStart, MakesRows, MasterNodes, After

LEMMA InitAgreeInv == Init => AgreeInv
  <1> SUFFICES ASSUME Init PROVE AgreeInv
    OBVIOUS
  <1>1. \A c \in DatasetDependents :
          Nothing[c].kind = "absent" /\ Nothing[c].run = 0
    BY Dependents DEF Nothing, Absent
  <1> QED
    BY <1>1, InitOrderInv
       DEF Init, AgreeInv, Agree, NotAfter, OfEarlierRuns

LEMMA NextAgreeInv == AgreeInv /\ [Next]_vars => AgreeInv'
  <1> SUFFICES ASSUME AgreeInv, [Next]_vars PROVE AgreeInv'
    OBVIOUS
  <1>0. OrderInv /\ OrderInv' /\ TypeOK /\ TypeOK'
    BY NextOrderInv DEF AgreeInv, OrderInv
  <1>1. CASE NodeRuns
    BY <1>1, NodeKeepsAgree
  <1>2. CASE Superstep
    <2>1. /\ phase = "running" /\ sub' = next /\ next' = next /\ st' = st
          /\ frontier' = NextNodes /\ UNCHANGED <<run, phase, at>>
      BY <1>2 DEF Superstep
    <2>2. frontier \subseteq Nodes
      BY <1>0 DEF TypeOK
    <2>3. NextNodes \cap MakesRows # {} => frontier \cap MakesRows # {}
      BY <2>2, RowEdges DEF NextNodes
    <2>4. BeforeRows' => BeforeRows
      BY <2>1, <2>3 DEF BeforeRows
    <2> QED
      BY <1>0, <2>1, <2>4 DEF AgreeInv, Agree, NotAfter, OfEarlierRuns
  <1>3. CASE FlowEnd
    <2>1. /\ phase = "running" /\ at \in Flows /\ st' = next
          /\ Enters(After[at], st') /\ run' = run
      BY <1>3 DEF FlowEnd
    <2>2. Agree(st') /\ NotAfter(st)'
      BY <2>1 DEF AgreeInv, Agree, NotAfter
    <2>3. \/ After[at] \in {"input_adapter", "doc1_flow",
                            "output_adapter_intermediate"}
          \/ Start(After[at]) \cap MakesRows # {}
          => OfEarlierRuns(st)'
      BY <2>1, RowStarts DEF AgreeInv, BeforeRows, OfEarlierRuns
    <2> QED
      BY <1>0, <2>1, <2>2, <2>3, RowStarts, EntersAgree
  <1>4. CASE input_adapter \/ output_adapter_intermediate
    <2>1. PICK m \in MasterNodes : Enters(m, st')
      BY <1>4, FlowTypes, RouteType
         DEF input_adapter, output_adapter_intermediate
    <2>2. /\ run' = run /\ st' = st /\ phase = "running" /\ BeforeRows
      BY <1>4
         DEF input_adapter, output_adapter_intermediate, BeforeRows
    <2>3. Agree(st') /\ NotAfter(st)' /\ OfEarlierRuns(st)'
      BY <2>2 DEF AgreeInv, Agree, NotAfter, OfEarlierRuns
    <2> QED
      BY <1>0, <2>1, <2>2, <2>3, EntersAgree
  <1>5. CASE output_adapter_final \/ RunFails \/ RunIsCut
    <2>1. /\ Enters("input_adapter", st') /\ run' = run /\ st' = st
          /\ phase' # "running"
      BY <1>5 DEF output_adapter_final, RunFails, RunIsCut, Halts
    <2>2. Agree(st') /\ NotAfter(st)'
      BY <2>1 DEF AgreeInv, Agree, NotAfter
    <2> QED
      BY <1>0, <2>1, <2>2, FlowTypes, EntersAgree
  <1>6. CASE RunResumes
    <2>1. /\ run' = run + 1 /\ UNCHANGED <<st, sub, next, frontier>>
      BY <1>6 DEF RunResumes, graph
    <2>2. ASSUME NEW x \in [Channels -> Values],
                 \A c \in DatasetDependents : x[c].run <= run
          PROVE  \A c \in DatasetDependents : x[c].run < run + 1
                                              /\ x[c].run <= run + 1
      <3>1. ASSUME NEW c \in DatasetDependents PROVE x[c].run \in Nat
        BY <3>1, <2>2, Dependents, RunsAssumption DEF Values
      <3> QED
        BY <1>0, <2>2, <3>1 DEF TypeOK
    <2>3. /\ OfEarlierRuns(st)' /\ OfEarlierRuns(sub)' /\ OfEarlierRuns(next)'
          /\ NotAfter(st)' /\ NotAfter(sub)' /\ NotAfter(next)'
      BY <1>0, <2>1, <2>2 DEF AgreeInv, NotAfter, OfEarlierRuns, TypeOK
    <2> QED
      BY <1>0, <2>1, <2>3 DEF AgreeInv, Agree
  <1>7. CASE UNCHANGED vars
    BY <1>0, <1>7
       DEF vars, graph, AgreeInv, Agree, NotAfter, OfEarlierRuns, BeforeRows
  <1> QED
    BY <1>1, <1>2, <1>3, <1>4, <1>5, <1>6, <1>7 DEF Next, GraphStep

\* The report, the charts and the metrics made in the run that made the rows
\* speak of these rows, for any forms and bounds (MadeTogetherAgree).
THEOREM ReportsOfTheirRows == Spec => []MadeTogetherAgree
  <1>1. AgreeInv => MadeTogetherAgree
    BY DEF AgreeInv, Agree, MadeTogetherAgree
  <1> QED
    BY <1>1, InitAgreeInv, NextAgreeInv, PTL DEF Spec
-----------------------------------------------------------------------------
(* A run gets on *)

LEMMA AheadIs ==
    ASSUME NEW F, F # {}, NEW d \in 0 .. 6, \E n \in F : Distance[n] = d,
           \A n \in F : Distance[n] <= d
    PROVE  Ahead(F) = d
  <1> DEFINE Furthest(e) == /\ \E n \in F : Distance[n] = e
                            /\ \A n \in F : Distance[n] <= e
  <1>1. Furthest(d)
    OBVIOUS
  <1>2. Ahead(F) = CHOOSE e \in 0 .. 6 : Furthest(e)
    BY DEF Ahead
  <1> HIDE DEF Furthest
  <1>3. Ahead(F) \in 0 .. 6 /\ Furthest(Ahead(F))
    BY <1>1, <1>2
  <1>4. Ahead(F) <= d /\ d <= Ahead(F)
    BY <1>1, <1>3 DEF Furthest
  <1> QED
    BY <1>3, <1>4

\* The supersteps in their order.
LEMMA AheadOfSteps ==
    /\ Ahead({}) = 0
    /\ Ahead({"case_architect"}) = 2
    /\ Ahead({"case_writer", "case_questions"}) = 1
    /\ Ahead({"doc1_complete"}) = 0
    /\ Ahead({"schema_designer"}) = 6
    /\ Ahead({"data_generator"}) = 5
    /\ Ahead({"data_validator"}) = 4
    /\ Ahead({"eda_text_analyst"}) = 3
    /\ Ahead({"eda_chart_generator"}) = 2
    /\ Ahead({"eda_questions_generator"}) = 1
    /\ Ahead({"eda_phase2_sync"}) = 0
    /\ Ahead({"m3_content_generator"}) = 4
    /\ Ahead({"m3_questions_generator", "m3_notebook_generator"}) = 3
    /\ Ahead({"m3_sync", "m3_notebook_executor"}) = 2
    /\ Ahead({"m3_notebook_questions_generator"}) = 1
    /\ Ahead({"m3_sync"}) = 0
    /\ Ahead({"m4_content_generator"}) = 2
    /\ Ahead({"m4_questions_generator", "m4_chart_generator"}) = 1
    /\ Ahead({"m4_sync"}) = 0
    /\ Ahead({"m5_content_generator", "teaching_note_part1"}) = 4
    /\ Ahead({"synthesis_phase1_sync"}) = 3
    /\ Ahead({"m5_questions_generator"}) = 2
    /\ Ahead({"teaching_note_part2"}) = 1
    /\ Ahead({"synthesis_phase2_sync"}) = 0
  <1>1. \A n \in Nodes : Distance[n] \in 0 .. 6
    BY DEF Nodes, Edges, Distance
  <1>2. ASSUME NEW n \in Nodes, NEW m \in Nodes, Distance[m] <= Distance[n]
        PROVE  Ahead({m, n}) = Distance[n]
    BY <1>1, <1>2, AheadIs
  <1>3. ASSUME NEW n \in Nodes PROVE Ahead({n}) = Distance[n]
    <2>1. {n, n} = {n} /\ Distance[n] <= Distance[n]
      BY <1>1
    <2> QED
      BY <1>2, <2>1
  <1>4. Ahead({}) = 0
    BY DEF Ahead
  <1> HIDE DEF Ahead
  <1>5. /\ Distance["case_questions"] = 1 /\ Distance["case_writer"] = 1
        /\ Distance["m3_questions_generator"] = 1
        /\ Distance["m3_notebook_generator"] = 3
        /\ Distance["m3_sync"] = 0 /\ Distance["m3_notebook_executor"] = 2
        /\ Distance["m4_questions_generator"] = 1
        /\ Distance["m4_chart_generator"] = 1
        /\ Distance["m5_content_generator"] = 4
        /\ Distance["teaching_note_part1"] = 4
        /\ {"case_writer", "case_questions", "m3_questions_generator",
            "m3_notebook_generator", "m3_sync", "m3_notebook_executor",
            "m4_questions_generator", "m4_chart_generator",
            "m5_content_generator", "teaching_note_part1"} \subseteq Nodes
    BY DEF Distance, Nodes, Edges
  <1>6. /\ Ahead({"case_writer", "case_questions"}) = 1
        /\ Ahead({"m3_questions_generator", "m3_notebook_generator"}) = 3
        /\ Ahead({"m3_sync", "m3_notebook_executor"}) = 2
        /\ Ahead({"m4_questions_generator", "m4_chart_generator"}) = 1
        /\ Ahead({"m5_content_generator", "teaching_note_part1"}) = 4
    <2>1. Ahead({"case_writer", "case_questions"}) = 1
      BY <1>2, <1>5
    <2>2. Ahead({"m3_questions_generator", "m3_notebook_generator"}) = 3
      <3>1. Distance["m3_questions_generator"] <= Distance["m3_notebook_generator"]
        BY <1>5
      <3> QED
        BY <1>2, <1>5, <3>1
    <2>3. Ahead({"m3_sync", "m3_notebook_executor"}) = 2
      <3>1. Distance["m3_sync"] <= Distance["m3_notebook_executor"]
        BY <1>5
      <3> QED
        BY <1>2, <1>5, <3>1
    <2>4. Ahead({"m4_questions_generator", "m4_chart_generator"}) = 1
      BY <1>2, <1>5
    <2>5. Ahead({"m5_content_generator", "teaching_note_part1"}) = 4
      BY <1>2, <1>5
    <2> QED
      BY <2>1, <2>2, <2>3, <2>4, <2>5
  <1> QED
    BY <1>3, <1>4, <1>6 DEF Distance, Nodes, Edges

\* The flows' supersteps, one by one.
LEMMA SuperstepsAre ==
    ASSUME at \in Flows, frontier \in Steps[at]
    PROVE  \/ frontier \in {{"case_architect"}, {"case_writer", "case_questions"},
                           {"doc1_complete"}}
           \/ frontier \in {{"schema_designer"}, {"data_generator"},
                           {"data_validator"}}
           \/ frontier \in {{"eda_text_analyst"}, {"eda_chart_generator"},
                           {"eda_questions_generator"}, {"eda_phase2_sync"}}
           \/ frontier \in {{"m3_content_generator"},
                           {"m3_questions_generator", "m3_notebook_generator"},
                           {"m3_sync", "m3_notebook_executor"},
                           {"m3_notebook_questions_generator"}, {"m3_sync"}}
           \/ frontier \in {{"m4_content_generator"},
                           {"m4_questions_generator", "m4_chart_generator"},
                           {"m4_sync"}}
           \/ frontier \in {{"m5_content_generator", "teaching_note_part1"},
                           {"synthesis_phase1_sync"},
                           {"m5_questions_generator"}, {"teaching_note_part2"},
                           {"synthesis_phase2_sync"}}
  BY DEF Steps, Flows, FlowStart

\* A run in a flow is in one of its supersteps; one that is not is in none.
LEMMA TodoIsFinite ==
    ASSUME OrderInv
    PROVE  \E a, b : /\ todo \subseteq {a, b}
                    /\ IsFiniteSet(todo) /\ Cardinality(todo) \in 0 .. 2
  <1>1. at \in Flows => frontier \in Steps[at]
    BY DEF OrderInv
  <1>2. at \notin Flows => frontier = {}
    BY DEF OrderInv
  <1>3. \E a, b : frontier \subseteq {a, b}
    <2>1. \E a, b : {} \subseteq {a, b}
      OBVIOUS
    <2>2. \A x : \E a, b : {x} \subseteq {a, b}
      OBVIOUS
    <2>3. \A x, y : \E a, b : {x, y} \subseteq {a, b}
      OBVIOUS
    <2> QED
      BY <1>1, <1>2, <2>1, <2>2, <2>3, SuperstepsAre, SMTT(60)
  <1>4. PICK a, b : todo \subseteq {a, b}
    BY <1>3 DEF OrderInv, TypeOK
  <1>5. IsFiniteSet({a, b}) /\ Cardinality({a, b}) <= 2
    <2>1. IsFiniteSet({a}) /\ Cardinality({a}) = 1
      BY FS_Singleton
    <2>2. {a, b} = {a} \cup {b}
      OBVIOUS
    <2> QED
      BY <2>1, <2>2, FS_AddElement
  <1>6. IsFiniteSet(todo) /\ Cardinality(todo) <= Cardinality({a, b})
    BY <1>4, <1>5, FS_Subset
  <1>7. Cardinality(todo) \in Nat /\ Cardinality({a, b}) \in Nat
    BY <1>5, <1>6, FS_CardinalityType
  <1> QED
    BY <1>4, <1>5, <1>6, <1>7

LeftInv == SuperstepsLeft \in 0 .. 10 /\ Cardinality(todo) \in 0 .. 2

LEMMA LeftBound == OrderInv => LeftInv
  <1> SUFFICES ASSUME OrderInv PROVE LeftInv
    OBVIOUS
  <1>1. at \in Flows => frontier \in Steps[at]
    BY DEF OrderInv
  <1>2. at \notin Flows => frontier = {}
    BY DEF OrderInv
  <1>3. Ahead(frontier) \in 0 .. 6
    <2>1. CASE frontier = {}
      BY <2>1, AheadOfSteps
    <2>2. CASE at \in Flows
      BY <1>1, <2>2, SuperstepsAre, AheadOfSteps, SMTT(60)
    <2> QED
      BY <1>2, <2>1, <2>2
  <1>4. ForRetries \in 0 .. 4
    BY DEF ForRetries, OrderInv, TypeOK, MAX_RETRIES
  <1> QED
    BY <1>3, <1>4, TodoIsFinite DEF SuperstepsLeft, LeftInv

\* Only the validator counts the retries.
LEMMA RetryKept == ASSUME NodeRuns PROVE UNCHANGED retry \/ data_validator
  <1> USE DEF Generates, Wrapped, Barrier, Yields, Writes, WritesNothing
  <1>1. CASE Doc1
    BY <1>1 DEF Doc1, case_architect, case_writer, case_questions,
                doc1_complete
  <1>2. CASE EDA
    BY <1>2 DEF EDA, schema_designer, data_generator, eda_text_analyst,
                eda_chart_generator, eda_questions_generator, eda_phase2_sync
  <1>3. CASE M3
    BY <1>3 DEF M3, m3_content_generator, m3_questions_generator,
                m3_notebook_generator, m3_notebook_executor,
                m3_notebook_execution, m3_notebook_questions_generator,
                m3_sync
  <1>4. CASE M4
    BY <1>4 DEF M4, m4_content_generator, m4_questions_generator,
                m4_chart_generator, m4_sync
  <1>5. CASE Synthesis
    BY <1>5 DEF Synthesis, m5_content_generator, teaching_note_part1,
                synthesis_phase1_sync, m5_questions_generator,
                teaching_note_part2, synthesis_phase2_sync
  <1> QED
    BY <1>1, <1>2, <1>3, <1>4, <1>5 DEF NodeRuns

LEMMA Validating ==
    ASSUME at \in Flows, frontier \in Steps[at], "data_validator" \in frontier
    PROVE  frontier = {"data_validator"}
  BY DEF Steps, Flows, FlowStart

\* A node that runs leaves one node fewer to its superstep, and no more
\* supersteps.
LEMMA NodeGetsOn ==
    ASSUME OrderInv, NodeRuns
    PROVE  /\ UNCHANGED <<phase, at>>
           /\ Cardinality(todo') = Cardinality(todo) - 1
           /\ SuperstepsLeft' <= SuperstepsLeft
  <1>1. PICK n : Advances(n) /\ Itself(n)
    BY EveryNodeAdvances
  <1>2. /\ n \in todo /\ todo' = todo \ {n} /\ phase = "running"
        /\ UNCHANGED <<phase, at, frontier>>
    BY <1>1 DEF Advances, Runs
  <1>3. n \in frontier /\ at \in Flows /\ frontier \in Steps[at]
    BY <1>2 DEF OrderInv, TypeOK
  <1>4. IsFiniteSet(todo)
    BY TodoIsFinite
  <1>5. Cardinality(todo') = Cardinality(todo) - 1
    BY <1>2, <1>4, FS_RemoveElement
  <1>6. Ahead(frontier) \in 0 .. 6 /\ Ahead(frontier)' = Ahead(frontier)
    BY <1>2, <1>3, AheadOfSteps DEF Steps, Flows, FlowStart, Ahead
  <1>7. ForRetries' <= ForRetries
    <2>1. CASE data_validator
      <3>1. "data_validator" \in todo /\ todo' = todo \ {"data_validator"}
        BY <2>1 DEF data_validator, Runs
      <3>2. frontier = {"data_validator"} /\ todo' = {} /\ todo # {}
        BY <1>3, <3>1, Validating DEF OrderInv, TypeOK
      <3>3. retry \in 0 .. 2
        BY DEF OrderInv, TypeOK, MAX_RETRIES
      <3>4. retry' = 0 \/ (retry < 2 /\ retry' = retry + 1)
        BY <2>1 DEF data_validator, MAX_RETRIES
      <3> QED
        BY <1>2, <3>2, <3>3, <3>4 DEF ForRetries, MAX_RETRIES
    <2>2. CASE ~data_validator
      <3>1. retry' = retry
        BY <2>2, RetryKept
      <3>2. n # "data_validator"
        BY <1>1, <2>2 DEF Itself
      <3>3. "data_validator" \notin frontier
        BY <1>3, <3>2, Validating
      <3>4. ForRetries' = ForRetries
        BY <1>2, <3>1, <3>3 DEF ForRetries
      <3>5. ForRetries \in Int
        BY DEF ForRetries, OrderInv, TypeOK, MAX_RETRIES
      <3> QED
        BY <3>4, <3>5
    <2> QED
      BY <2>1, <2>2
  <1>8. ForRetries \in Int /\ ForRetries' \in Int
    <2>1. retry' \in 0 .. 2 /\ retry \in 0 .. 2
      BY NextTypeOK DEF OrderInv, TypeOK, MAX_RETRIES, Next, GraphStep
    <2> QED
      BY <2>1 DEF ForRetries, MAX_RETRIES
  <1> QED
    BY <1>2, <1>5, <1>6, <1>7, <1>8 DEF SuperstepsLeft

\* A superstep leads to one that is nearer to the end of the flow, or spends
\* a retry.
LEMMA SuperstepGetsOn ==
    ASSUME OrderInv, Superstep
    PROVE  UNCHANGED <<phase, at>> /\ SuperstepsLeft' < SuperstepsLeft
  <1>1. /\ at \in Flows /\ todo = {} /\ NextNodes # {}
        /\ frontier' = NextNodes /\ todo' = NextNodes /\ retry' = retry
        /\ UNCHANGED <<phase, at>>
    BY DEF Superstep
  <1>2. frontier \in Steps[at] /\ retry \in 0 .. 2
    BY <1>1 DEF OrderInv, TypeOK, MAX_RETRIES
  <1> DEFINE Drafting == {"schema_designer", "data_generator", "data_validator"}
  <1>3. CASE frontier = {"schema_designer"}
    <2>1. NextNodes = {"data_generator"}
      BY <1>3 DEF NextNodes, Successors, Edges
    <2> QED
      BY <1>1, <1>2, <1>3, <2>1, AheadOfSteps
         DEF SuperstepsLeft, ForRetries, MAX_RETRIES
  <1>4. CASE frontier = {"data_generator"}
    <2>1. NextNodes = {"data_validator"}
      BY <1>4 DEF NextNodes, Successors, Edges
    <2> QED
      BY <1>1, <1>2, <1>4, <2>1, AheadOfSteps
         DEF SuperstepsLeft, ForRetries, MAX_RETRIES
  <1>5. CASE frontier = {"data_validator"}
    <2>1. NextNodes = IF retry > 0 THEN {"data_generator"}
                                   ELSE {"eda_text_analyst"}
      BY <1>5 DEF NextNodes, Successors, Edges
    <2> QED
      BY <1>1, <1>2, <1>5, <2>1, AheadOfSteps
         DEF SuperstepsLeft, ForRetries, MAX_RETRIES
  <1>6. CASE frontier \cap Drafting = {}
    <2>1. /\ NextNodes \cap Drafting = {}
          /\ Ahead(frontier) \in Nat /\ Ahead(NextNodes) \in Nat
          /\ Ahead(NextNodes) < Ahead(frontier)
      <3>1. \A n \in frontier : Successors(n) = Edges[n]
        BY <1>6 DEF Successors
      <3>2. NextNodes = UNION {Edges[n] : n \in frontier}
        BY <3>1 DEF NextNodes
      <3> HIDE DEF NextNodes
      <3>3. CASE frontier = {"case_architect"}
        <4>1. NextNodes = {"case_writer", "case_questions"}
          BY <3>2, <3>3 DEF Edges
        <4> QED
          BY <3>3, <4>1, AheadOfSteps
      <3>4. CASE frontier = {"case_writer", "case_questions"}
        <4>1. NextNodes = {"doc1_complete"}
          BY <3>2, <3>4 DEF Edges
        <4> QED
          BY <3>4, <4>1, AheadOfSteps
      <3>5. CASE frontier = {"eda_text_analyst"}
        <4>1. NextNodes = {"eda_chart_generator"}
          BY <3>2, <3>5 DEF Edges
        <4> QED
          BY <3>5, <4>1, AheadOfSteps
      <3>6. CASE frontier = {"eda_chart_generator"}
        <4>1. NextNodes = {"eda_questions_generator"}
          BY <3>2, <3>6 DEF Edges
        <4> QED
          BY <3>6, <4>1, AheadOfSteps
      <3>7. CASE frontier = {"eda_questions_generator"}
        <4>1. NextNodes = {"eda_phase2_sync"}
          BY <3>2, <3>7 DEF Edges
        <4> QED
          BY <3>7, <4>1, AheadOfSteps
      <3>8. CASE frontier = {"m3_content_generator"}
        <4>1. NextNodes = {"m3_questions_generator", "m3_notebook_generator"}
          BY <3>2, <3>8 DEF Edges
        <4> QED
          BY <3>8, <4>1, AheadOfSteps
      <3>9. CASE frontier = {"m3_questions_generator", "m3_notebook_generator"}
        <4>1. NextNodes = {"m3_sync", "m3_notebook_executor"}
          BY <3>2, <3>9 DEF Edges
        <4> QED
          BY <3>9, <4>1, AheadOfSteps
      <3>10. CASE frontier = {"m3_sync", "m3_notebook_executor"}
        <4>1. NextNodes = {"m3_notebook_questions_generator"}
          BY <3>2, <3>10 DEF Edges
        <4> QED
          BY <3>10, <4>1, AheadOfSteps
      <3>11. CASE frontier = {"m3_notebook_questions_generator"}
        <4>1. NextNodes = {"m3_sync"}
          BY <3>2, <3>11 DEF Edges
        <4> QED
          BY <3>11, <4>1, AheadOfSteps
      <3>12. CASE frontier = {"m4_content_generator"}
        <4>1. NextNodes = {"m4_questions_generator", "m4_chart_generator"}
          BY <3>2, <3>12 DEF Edges
        <4> QED
          BY <3>12, <4>1, AheadOfSteps
      <3>13. CASE frontier = {"m4_questions_generator", "m4_chart_generator"}
        <4>1. NextNodes = {"m4_sync"}
          BY <3>2, <3>13 DEF Edges
        <4> QED
          BY <3>13, <4>1, AheadOfSteps
      <3>14. CASE frontier = {"m5_content_generator", "teaching_note_part1"}
        <4>1. NextNodes = {"synthesis_phase1_sync"}
          BY <3>2, <3>14 DEF Edges
        <4> QED
          BY <3>14, <4>1, AheadOfSteps
      <3>15. CASE frontier = {"synthesis_phase1_sync"}
        <4>1. NextNodes = {"m5_questions_generator"}
          BY <3>2, <3>15 DEF Edges
        <4> QED
          BY <3>15, <4>1, AheadOfSteps
      <3>16. CASE frontier = {"m5_questions_generator"}
        <4>1. NextNodes = {"teaching_note_part2"}
          BY <3>2, <3>16 DEF Edges
        <4> QED
          BY <3>16, <4>1, AheadOfSteps
      <3>17. CASE frontier = {"teaching_note_part2"}
        <4>1. NextNodes = {"synthesis_phase2_sync"}
          BY <3>2, <3>17 DEF Edges
        <4> QED
          BY <3>17, <4>1, AheadOfSteps
      <3>18. CASE frontier \in {{"doc1_complete"}, {"eda_phase2_sync"}, {"m3_sync"},
                               {"m4_sync"}, {"synthesis_phase2_sync"}}
        <4>1. NextNodes = {}
          BY <3>2, <3>18 DEF Edges
        <4> QED
          BY <1>1, <4>1
      <3>19. frontier \notin {{"schema_designer"}, {"data_generator"}, {"data_validator"}}
        BY <1>6
      <3> QED
        BY <1>1, <1>2, <3>19, SuperstepsAre, <3>3, <3>4, <3>5, <3>6, <3>7, <3>8, <3>9, <3>10, <3>11, <3>12, <3>13, <3>14, <3>15, <3>16, <3>17, <3>18
    <2>2. ForRetries = 0 /\ ForRetries' = 0
      BY <1>1, <1>6, <2>1 DEF ForRetries
    <2>3. Ahead(frontier)' = Ahead(NextNodes)
      BY <1>1 DEF Ahead
    <2> QED
      BY <1>1, <2>1, <2>2, <2>3 DEF SuperstepsLeft
  <1> QED
    BY <1>1, <1>2, <1>3, <1>4, <1>5, <1>6 DEF Steps, Flows, FlowStart

\* The master graph goes on, or the run ends.
LEMMA MasterGetsOn ==
    ASSUME OrderInv, FlowEnd \/ input_adapter \/ output_adapter_intermediate
    PROVE  /\ phase = "running" /\ phase' = "running"
           /\ MasterAhead[at] \in Nat /\ MasterAhead[at'] \in Nat
           /\ MasterAhead[at'] < MasterAhead[at]
  BY DEF FlowEnd, input_adapter, output_adapter_intermediate, Enters,
         After, Flows, FlowStart, MasterAhead, route_master

\* A node fewer, a superstep fewer with at most two nodes, or a flow fewer
\* with at most eleven supersteps.
LEMMA Fewer ==
    ASSUME NEW a \in Nat, NEW b \in Nat, NEW l \in 0 .. 10, NEW k \in 0 .. 10,
           NEW n \in 0 .. 2, NEW m \in 0 .. 2,
           \/ b < a
           \/ b = a /\ k < l
           \/ b = a /\ k <= l /\ m = n - 1
    PROVE  1 + 33 * b + 3 * k + m < 1 + 33 * a + 3 * l + n
  OBVIOUS

\* Every step of a run brings it nearer to its end, whatever fails and
\* however often the dataset is tried again: a run takes at most StepsLeft
\* steps, and a flow at most eleven supersteps (RunsAreShort).
THEOREM RunsEndByThemselves == Spec => RunsAreShort
  <1>1. ASSUME OrderInv, OrderInv', LeftInv, LeftInv', GraphStep
        PROVE  /\ StepsLeft \in Nat /\ StepsLeft' < StepsLeft
               /\ Superstep => SuperstepsLeft' < SuperstepsLeft
    <2> DEFINE left == SuperstepsLeft
    <2> DEFINE nodes == Cardinality(todo)
    <2> DEFINE ahead == MasterAhead[at]
    <2>1. /\ left \in 0 .. 10 /\ left' \in 0 .. 10
          /\ nodes \in 0 .. 2 /\ nodes' \in 0 .. 2
      BY <1>1 DEF LeftInv
    <2>2. ahead \in Nat /\ ahead' \in Nat
      BY <1>1 DEF OrderInv, TypeOK, MasterNodes, Flows, FlowStart, MasterAhead
    <2>3. phase = "running"
      BY <1>1, NodeGetsOn, EveryNode, MasterGetsOn
         DEF GraphStep, Superstep, output_adapter_final, NodeStep, OrderInv
    <2>4. /\ StepsLeft = 1 + 33 * ahead + 3 * left + nodes
          /\ StepsLeft' = IF phase' # "running" THEN 0
                          ELSE 1 + 33 * ahead' + 3 * left' + nodes'
      BY <2>3 DEF StepsLeft
    <2>5. Superstep => left' < left
      BY <1>1, SuperstepGetsOn
    <2>6. \/ phase' # "running"
          \/ ahead' < ahead
          \/ ahead' = ahead /\ left' < left
          \/ ahead' = ahead /\ left' <= left /\ nodes' = nodes - 1
      <3>1. CASE NodeRuns
        BY <1>1, <3>1, NodeGetsOn
      <3>2. CASE Superstep
        BY <1>1, <3>2, SuperstepGetsOn
      <3>3. CASE FlowEnd \/ input_adapter \/ output_adapter_intermediate
        BY <1>1, <3>3, MasterGetsOn
      <3>4. CASE output_adapter_final
        BY <3>4 DEF output_adapter_final, Halts
      <3> QED
        BY <1>1, <3>1, <3>2, <3>3, <3>4 DEF GraphStep
    <2> HIDE DEF left, nodes, ahead
    <2>7. StepsLeft \in Nat /\ StepsLeft > 0
      BY <2>1, <2>2, <2>4
    <2>8. ASSUME phase' # "running" PROVE StepsLeft' < StepsLeft
      BY <2>4, <2>7, <2>8
    <2>9. ASSUME phase' = "running" PROVE StepsLeft' < StepsLeft
      <3>1. StepsLeft' = 1 + 33 * ahead' + 3 * left' + nodes'
        BY <2>4, <2>9
      <3>2. \/ ahead' < ahead
            \/ ahead' = ahead /\ left' < left
            \/ ahead' = ahead /\ left' <= left /\ nodes' = nodes - 1
        BY <2>6, <2>9
      <3>3. 1 + 33 * ahead' + 3 * left' + nodes' < 1 + 33 * ahead + 3 * left + nodes
        BY <2>1, <2>2, <3>2, Fewer
      <3> QED
        BY <2>4, <3>1, <3>3, Zenon
    <2> QED
      BY <2>5, <2>7, <2>8, <2>9 DEF left
  <1>2. OrderInv /\ OrderInv' /\ LeftInv /\ LeftInv' /\ [Next]_vars
        => [/\ GraphStep => StepsLeft \in Nat /\ StepsLeft' < StepsLeft
            /\ Superstep => SuperstepsLeft' < SuperstepsLeft]_vars
    BY <1>1 DEF GraphStep
  <1> QED
    BY <1>2, LeftBound, OrderInvHolds, PTL DEF Spec, RunsAreShort

=============================================================================
