----------------------------- MODULE CaseGraph ------------------------------
(***************************************************************************)
(* The LangGraph graph that generates a case (case_generator/graph.py): a  *)
(* master graph whose flows are compiled subgraphs, run in supersteps, cut *)
(* at any moment by a timeout or an infrastructure error, and resumed from *)
(* the checkpoint of the master graph.                                     *)
(*                                                                         *)
(*   form      what the teacher asked for: it decides the route and which  *)
(*             nodes do nothing                                            *)
(*   run       the number of the current run of the job                    *)
(*   phase     running, cut (resumable), failed or done                    *)
(*   at        the node of the master graph                                *)
(*   st        the durable channels, those of the master's checkpoint      *)
(*   sub       the channels the nodes of this superstep read               *)
(*   next      sub with the writes of the nodes that have run              *)
(*   frontier  the nodes of this superstep; todo those yet to run          *)
(*   retry     dataset_retry_count                                         *)
(*   out       the channels canonical_output has content from              *)
(*   softs     how many outputs came out bad (bounds the behaviours)       *)
(*                                                                         *)
(* A channel holds the kind of its value, the run that made it, the design *)
(* of the dataset it was computed from (of) and how many times a later     *)
(* node rewrote it in place (edits). LangGraph itself is not under src/:   *)
(* supersteps, the merge of writes and what a checkpoint keeps are modelled*)
(* from how graph.py builds and authoring.py drives the graph.             *)
(***************************************************************************)
EXTENDS Naturals, FiniteSets

CONSTANTS
    Forms,    \* the forms a case may have
    MaxRuns,  \* bound on the runs of a job: the first one and its resumes
    MaxSoft   \* bound on the bad outputs of a behaviour

AllForms == {"harvard_only", "eda", "nb_classification", "nb_clustering",
             "nb_other"}
ASSUME FormsAssumption == Forms \subseteq AllForms
ASSUME RunsAssumption == MaxRuns \in Nat \ {0}
ASSUME SoftAssumption == MaxSoft \in Nat

VARIABLES form, run, phase, at, st, sub, next, frontier, todo, retry, out,
          softs

graph == <<at, st, sub, next, frontier, todo, retry>>
vars == <<form, run, phase, graph, out, softs>>

-----------------------------------------------------------------------------
(* The graph *)

Edges ==
    [case_architect |-> {"case_writer", "case_questions"},
     case_writer |-> {"doc1_complete"},
     case_questions |-> {"doc1_complete"},
     doc1_complete |-> {},
     schema_designer |-> {"data_generator"},
     data_generator |-> {"data_validator"},
     data_validator |-> {"eda_text_analyst"},
     eda_text_analyst |-> {"eda_chart_generator"},
     eda_chart_generator |-> {"eda_questions_generator"},
     eda_questions_generator |-> {"eda_phase2_sync"},
     eda_phase2_sync |-> {},
     m3_content_generator |-> {"m3_questions_generator",
                               "m3_notebook_generator"},
     m3_questions_generator |-> {"m3_sync"},
     m3_notebook_generator |-> {"m3_notebook_executor"},
     m3_notebook_executor |-> {"m3_notebook_questions_generator"},
     m3_notebook_questions_generator |-> {"m3_sync"},
     m3_sync |-> {},
     m4_content_generator |-> {"m4_questions_generator",
                               "m4_chart_generator"},
     m4_questions_generator |-> {"m4_sync"},
     m4_chart_generator |-> {"m4_sync"},
     m4_sync |-> {},
     m5_content_generator |-> {"synthesis_phase1_sync"},
     teaching_note_part1 |-> {"synthesis_phase1_sync"},
     synthesis_phase1_sync |-> {"m5_questions_generator"},
     m5_questions_generator |-> {"teaching_note_part2"},
     teaching_note_part2 |-> {"synthesis_phase2_sync"},
     synthesis_phase2_sync |-> {}]
Nodes == DOMAIN Edges

FlowStart ==
    [doc1_flow |-> {"case_architect"},
     eda_flow |-> {"schema_designer"},
     m3_flow |-> {"m3_content_generator"},
     m4_flow |-> {"m4_content_generator"},
     synthesis_flow |-> {"m5_content_generator", "teaching_note_part1"}]
Flows == DOMAIN FlowStart
MasterNodes == Flows \cup {"input_adapter", "output_adapter_intermediate",
                           "output_adapter_final"}

HasEDA == form # "harvard_only"
HasNotebook == form \in {"nb_classification", "nb_clustering", "nb_other"}
IsExecuted == form \in {"nb_classification", "nb_clustering"}

route_master == IF HasEDA THEN "eda_flow" ELSE "m4_flow"

\* Mutant: the flow of the experiment is not wired.
AfterSkipping == [doc1_flow |-> "output_adapter_intermediate",
                  eda_flow |-> "m4_flow",
                  m3_flow |-> "m4_flow",
                  m4_flow |-> "synthesis_flow",
                  synthesis_flow |-> "output_adapter_final"]

After == [doc1_flow |-> "output_adapter_intermediate",
          eda_flow |-> "m3_flow",
          m3_flow |-> "m4_flow",
          m4_flow |-> "synthesis_flow",
          synthesis_flow |-> "output_adapter_final"]

-----------------------------------------------------------------------------
(* The channels *)

\* titulo stands for the eight fields of the architect; dataset_schema for
\* the schema and its constraints; m3_notebook_code for the code and
\* m3_notebook_degraded, which are set together: a placeholder is degraded.
Channels == {"titulo", "doc1_narrativa", "doc1_preguntas", "dataset_schema",
             "doc7_dataset", "doc2_eda", "doc2_eda_charts",
             "doc2_preguntas_eda", "m3_content", "m3_questions",
             "m3_notebook_code", "m3_metrics_summary",
             "m3_notebook_questions", "m4_content", "m4_questions",
             "m4_charts", "m5_content", "m5_questions",
             "doc3_teaching_note_part1", "doc3_teaching_note_part2",
             "doc3_teaching_note"}

\* empty: None, "", [] or {}; sentinel: "[..._ERROR]", "[..._NOT_EXECUTED]";
\* fallback and placeholder: text that stands for an output that could not
\* be made; short and faulty: schemas whose rows are too few, or none.
Kinds == {"absent", "empty", "sentinel", "fallback", "placeholder", "short",
          "faulty", "good"}
Values == [kind : Kinds, run : 0 .. MaxRuns, of : 0 .. MaxRuns,
           edits : Nat]
Absent == [kind |-> "absent", run |-> 0, of |-> 0, edits |-> 0]
Nothing == [c \in Channels |-> Absent]

is_resumable_state_value(v) == v.kind \notin {"absent", "empty", "sentinel"}
Usable(c) == is_resumable_state_value(sub[c])
IsTruthy(v) == v.kind \notin {"absent", "empty"}

\* What a wrapped node must find in its state to be skipped.
RequiredOutput ==
    [case_architect |-> "titulo",
     case_writer |-> "doc1_narrativa",
     case_questions |-> "doc1_preguntas",
     eda_text_analyst |-> "doc2_eda",
     eda_chart_generator |-> "doc2_eda_charts",
     eda_questions_generator |-> "doc2_preguntas_eda",
     m3_content_generator |-> "m3_content",
     m3_questions_generator |-> "m3_questions",
     m3_notebook_questions_generator |-> "m3_notebook_questions",
     m3_notebook_generator |-> "m3_notebook_code",
     m3_notebook_executor |-> "m3_metrics_summary",
     m4_content_generator |-> "m4_content",
     m4_questions_generator |-> "m4_questions",
     m4_chart_generator |-> "m4_charts",
     m5_content_generator |-> "m5_content",
     m5_questions_generator |-> "m5_questions",
     teaching_note_part1 |-> "doc3_teaching_note_part1",
     teaching_note_part2 |-> "doc3_teaching_note_part2"]
checkpoint_has_node_output(n) ==
    n \in DOMAIN RequiredOutput /\ Usable(RequiredOutput[n])

-----------------------------------------------------------------------------
(* Running a node *)

Runs(n) == /\ phase = "running"
           /\ n \in todo
           /\ todo' = todo \ {n}
           /\ UNCHANGED <<form, run, phase, at, st, sub, frontier, out>>

Value(kind, design) ==
    [kind |-> kind, run |-> run, of |-> design, edits |-> 0]
Writes(c, kind, design) ==
    /\ next' = [next EXCEPT ![c] = Value(kind, design)]
    /\ UNCHANGED <<retry, softs>>
WritesNothing == UNCHANGED <<next, retry, softs>>

\* What comes out of a call that may fail: a bad output is counted.
Yields(c, bad, design) ==
    \E kind \in {"good"} \cup bad :
        /\ next' = [next EXCEPT ![c] = Value(kind, design)]
        /\ softs' = IF kind \in bad THEN softs + 1 ELSE softs
        /\ softs' <= MaxSoft
        /\ UNCHANGED retry

\* Mutant: every node runs again on a resume.
WrappedAlways(n, body) == Runs(n) /\ body

\* _with_resume_skip: the node is not called when its output is there.
Wrapped(n, body) ==
    /\ Runs(n)
    /\ IF checkpoint_has_node_output(n) THEN WritesNothing ELSE body

\* A wrapped generator whose failure leaves a value that says so.
Generates(n, bad) == Wrapped(n, Yields(RequiredOutput[n], bad, 0))

Barrier(n) == Runs(n) /\ WritesNothing

-----------------------------------------------------------------------------
(* doc1_flow *)

\* On an error the exhibits and the instructions are left empty, which makes
\* the whole output one to recompute.
case_architect == Generates("case_architect", {"empty"})
case_writer == Generates("case_writer", {"empty"})
case_questions == Generates("case_questions", {"empty"})
doc1_complete == Barrier("doc1_complete")

-----------------------------------------------------------------------------
(* eda_flow *)

\* The clustering schema follows from the contract of the architect; any
\* other is a new design on each call.
Design == IF form = "nb_clustering"
          THEN IF sub["titulo"].kind = "good" THEN sub["titulo"].run ELSE 0
          ELSE run

\* Wrapped, but no output of it is required: it runs again on a resume.
schema_designer ==
    Wrapped("schema_designer",
            Yields("dataset_schema", {"short", "faulty"}, Design))

\* The rows follow from the schema: the generator is seeded with it.
data_generator ==
    /\ Runs("data_generator")
    /\ Writes("doc7_dataset",
              IF sub["dataset_schema"].kind = "faulty" THEN "empty"
                                        ELSE sub["dataset_schema"].kind,
              sub["dataset_schema"].of)

MAX_RETRIES == 2

\* Mutant: one retry too many.
data_validatorLate ==
    /\ Runs("data_validator")
    /\ UNCHANGED softs
    /\ IF sub["doc7_dataset"].kind = "short" /\ retry <= MAX_RETRIES
       THEN /\ retry' = retry + 1
            /\ next' = [next EXCEPT !["doc7_dataset"] = Value("empty", 0)]
       ELSE /\ retry' = 0
            /\ UNCHANGED next

\* Mutant: the retries are not counted.
data_validatorPatient ==
    /\ Runs("data_validator")
    /\ UNCHANGED softs
    /\ IF sub["doc7_dataset"].kind = "short"
       THEN /\ retry' = 1
            /\ next' = [next EXCEPT !["doc7_dataset"] = Value("empty", 0)]
       ELSE /\ retry' = 0
            /\ UNCHANGED next

\* Only too few rows are worth a retry, for which they are cleared; in the
\* end the rows there are, if any, are accepted.
data_validator ==
    /\ Runs("data_validator")
    /\ UNCHANGED softs
    /\ IF sub["doc7_dataset"].kind = "short" /\ retry < MAX_RETRIES
       THEN /\ retry' = retry + 1
            /\ next' = [next EXCEPT !["doc7_dataset"] = Value("empty", 0)]
       ELSE /\ retry' = 0
            /\ UNCHANGED next

\* A report on a case without narrative says so; one that could not be made
\* is the text DATASET_UNAVAILABLE.
eda_text_analyst ==
    Wrapped("eda_text_analyst",
            IF sub["doc1_narrativa"].kind = "good"
            THEN Yields("doc2_eda", {"empty", "placeholder"},
                        sub["doc7_dataset"].of)
            ELSE Writes("doc2_eda", "fallback", 0))

\* Mutant: the charts are drawn from what the report was drawn from.
ChartsOfReport ==
    Wrapped("eda_chart_generator",
            IF IsTruthy(sub["doc2_eda"]) /\ sub["doc2_eda"].kind # "fallback"
            THEN Yields("doc2_eda_charts", {"empty"}, sub["doc2_eda"].of)
            ELSE Writes("doc2_eda_charts", "empty", 0))

eda_chart_generator ==
    Wrapped("eda_chart_generator",
            IF IsTruthy(sub["doc2_eda"]) /\ sub["doc2_eda"].kind # "fallback"
            THEN Yields("doc2_eda_charts", {"empty"}, sub["doc7_dataset"].of)
            ELSE Writes("doc2_eda_charts", "empty", 0))

eda_questions_generator == Generates("eda_questions_generator", {"empty"})

\* The call to action is appended to whatever report there is, each time.
eda_phase2_sync ==
    /\ Runs("eda_phase2_sync")
    /\ UNCHANGED <<retry, softs>>
    /\ next' = IF IsTruthy(sub["doc2_eda"])
               THEN [next EXCEPT !["doc2_eda"].edits = @ + 1]
               ELSE next

-----------------------------------------------------------------------------
(* m3_flow *)

m3_content_generator == Generates("m3_content_generator", {"sentinel"})
m3_questions_generator == Generates("m3_questions_generator", {"empty"})

IsDegraded == sub["m3_notebook_code"].kind = "placeholder"

m3_notebook_generator ==
    Wrapped("m3_notebook_generator",
            IF HasNotebook
            THEN Yields("m3_notebook_code", {"placeholder"}, 0)
            ELSE WritesNothing)

\* The notebook runs on the rows, once more after a correction if it has to;
\* what comes of it is the metrics, or a run without metrics, or the
\* placeholder in the place of the notebook.
m3_notebook_execution ==
    \/ /\ sub["doc7_dataset"].kind \in {"good", "short"}
       /\ \E corrected \in BOOLEAN, kind \in {"good", "empty"} :
            /\ next' = [next EXCEPT
                 !["m3_metrics_summary"] =
                    Value(kind, sub["doc7_dataset"].of),
                 !["m3_notebook_code"] =
                    IF corrected THEN Value("good", 0) ELSE @]
            /\ softs' = IF kind = "empty" THEN softs + 1 ELSE softs
       /\ softs' <= MaxSoft
       /\ UNCHANGED retry
    \/ /\ next' = [next EXCEPT !["m3_notebook_code"] = Value("placeholder", 0)]
       /\ softs' = IF sub["doc7_dataset"].kind = "empty" THEN softs
                                                        ELSE softs + 1
       /\ softs' <= MaxSoft
       /\ UNCHANGED retry

m3_notebook_executor ==
    Wrapped("m3_notebook_executor",
            IF IsExecuted /\ ~IsDegraded THEN m3_notebook_execution
                                        ELSE WritesNothing)

\* Mutant: the questions do not ask whether the run had metrics.
QuestionsAnyway ==
    Wrapped("m3_notebook_questions_generator",
            IF IsExecuted /\ ~IsDegraded
            THEN Yields("m3_notebook_questions", {"empty"},
                        sub["m3_metrics_summary"].of)
            ELSE WritesNothing)

m3_notebook_questions_generator ==
    Wrapped("m3_notebook_questions_generator",
            IF /\ IsExecuted /\ ~IsDegraded
               /\ sub["m3_metrics_summary"].kind = "good"
            THEN \/ Yields("m3_notebook_questions", {"empty"},
                           sub["m3_metrics_summary"].of)
                 \/ WritesNothing  \* no plan for these metrics
            ELSE WritesNothing)

m3_sync == Barrier("m3_sync")

-----------------------------------------------------------------------------
(* m4_flow and synthesis_flow *)

m4_content_generator == Generates("m4_content_generator", {"sentinel"})
m4_questions_generator == Generates("m4_questions_generator", {"empty"})
m4_chart_generator == Generates("m4_chart_generator", {"empty"})
m4_sync == Barrier("m4_sync")

m5_content_generator == Generates("m5_content_generator", {"sentinel"})
m5_questions_generator == Generates("m5_questions_generator", {"empty"})
teaching_note_part1 == Generates("teaching_note_part1", {"sentinel"})
teaching_note_part2 == Generates("teaching_note_part2", {"sentinel"})
synthesis_phase1_sync == Barrier("synthesis_phase1_sync")

\* The note is composed again from its two parts on each run.
synthesis_phase2_sync ==
    /\ Runs("synthesis_phase2_sync")
    /\ Writes("doc3_teaching_note", "good", 0)

-----------------------------------------------------------------------------
(* The supersteps and the master graph *)

Successors(n) ==
    IF n = "data_validator" /\ retry > 0 THEN {"data_generator"} ELSE Edges[n]
NextNodes == UNION {Successors(n) : n \in frontier}

Start(m) == IF m \in Flows THEN FlowStart[m] ELSE {}

\* The master graph goes on to m: a flow starts from a copy of the channels.
Enters(m, channels) ==
    /\ at' = m
    /\ sub' = channels /\ next' = channels
    /\ frontier' = Start(m) /\ todo' = Start(m)
    /\ retry' = 0

\* All nodes of the superstep have run: their writes are merged and the
\* nodes they lead to are the next superstep.
Superstep ==
    /\ phase = "running" /\ at \in Flows /\ todo = {}
    /\ NextNodes # {}
    /\ sub' = next
    /\ frontier' = NextNodes /\ todo' = NextNodes
    /\ UNCHANGED <<form, run, phase, at, st, next, retry, out, softs>>

\* A flow that has ended is one write of the master graph, checkpointed.
FlowEnd ==
    /\ phase = "running" /\ at \in Flows /\ todo = {}
    /\ NextNodes = {}
    /\ st' = next
    /\ Enters(After[at], next)
    /\ UNCHANGED <<form, run, phase, out, softs>>

input_adapter ==
    /\ phase = "running" /\ at = "input_adapter"
    /\ Enters("doc1_flow", st)
    /\ UNCHANGED <<form, run, phase, st, out, softs>>

\* The channels with content in the preview, the questions on the notebook
\* merged with those of the module.
Content == {c \in Channels \ {"dataset_schema", "m3_metrics_summary",
                              "doc3_teaching_note_part1",
                              "doc3_teaching_note_part2"} : IsTruthy(st[c])}

output_adapter_intermediate ==
    /\ phase = "running" /\ at = "output_adapter_intermediate"
    /\ out' = Content
    /\ Enters(route_master, st)
    /\ UNCHANGED <<form, run, phase, st, softs>>

\* The run is over: what the flow it was in had not finished is gone.
Halts(p) == /\ phase' = p
            /\ Enters("input_adapter", st)
            /\ UNCHANGED <<form, run, st, softs>>

\* Mutant: the preview is taken for the whole.
output_adapter_finalStale ==
    /\ phase = "running" /\ at = "output_adapter_final"
    /\ UNCHANGED out
    /\ Halts("done")

output_adapter_final ==
    /\ phase = "running" /\ at = "output_adapter_final"
    /\ out' = Content
    /\ Halts("done")

-----------------------------------------------------------------------------
(* Interruptions *)

\* The nodes that let a RuntimeError, or an output that does not parse,
\* out: it ends the job for good.
Raising == {"case_architect", "case_questions", "eda_questions_generator",
            "m3_content_generator", "m3_questions_generator",
            "m3_notebook_questions_generator", "m4_content_generator",
            "m5_content_generator", "m5_questions_generator"}

RunFails ==
    /\ phase = "running"
    /\ \E n \in todo \cap Raising :
         /\ ~checkpoint_has_node_output(n)
         /\ n = "m3_notebook_questions_generator" =>
              sub["m3_metrics_summary"].kind = "good" /\ ~IsDegraded
    /\ Halts("failed")
    /\ UNCHANGED out

\* A timeout of the run, of a provider, of the checkpointer: resumable.
RunIsCut ==
    /\ phase = "running"
    /\ Halts("cut")
    /\ UNCHANGED out

\* A new delivery of the job gives the graph the input again: the master
\* graph starts at its beginning, with the channels it had kept.
RunResumes ==
    /\ phase = "cut"
    /\ run < MaxRuns /\ run' = run + 1
    /\ phase' = "running"
    /\ UNCHANGED <<form, graph, out, softs>>

-----------------------------------------------------------------------------
(* Specification *)

Init ==
    /\ form \in Forms
    /\ run = 1 /\ phase = "running" /\ at = "input_adapter"
    /\ st = Nothing /\ sub = Nothing /\ next = Nothing
    /\ frontier = {} /\ todo = {} /\ retry = 0
    /\ out = {} /\ softs = 0

Doc1 == case_architect \/ case_writer \/ case_questions \/ doc1_complete
EDA == \/ schema_designer \/ data_generator \/ data_validator
       \/ eda_text_analyst \/ eda_chart_generator
       \/ eda_questions_generator \/ eda_phase2_sync
M3 == \/ m3_content_generator \/ m3_questions_generator
      \/ m3_notebook_generator \/ m3_notebook_executor
      \/ m3_notebook_questions_generator \/ m3_sync
M4 == \/ m4_content_generator \/ m4_questions_generator
      \/ m4_chart_generator \/ m4_sync
Synthesis == \/ m5_content_generator \/ teaching_note_part1
             \/ synthesis_phase1_sync \/ m5_questions_generator
             \/ teaching_note_part2 \/ synthesis_phase2_sync
NodeRuns == Doc1 \/ EDA \/ M3 \/ M4 \/ Synthesis

GraphStep == \/ NodeRuns \/ Superstep \/ FlowEnd \/ input_adapter
             \/ output_adapter_intermediate \/ output_adapter_final

Next == GraphStep \/ RunFails \/ RunIsCut \/ RunResumes

Spec == Init /\ [][Next]_vars

\* The event loop goes on with a graph that can; nobody has to resume a job.
FairSpec == Spec /\ WF_vars(GraphStep)

-----------------------------------------------------------------------------
(* Properties *)

\* The state has the shape the graph gives it, and outside a flow nothing is
\* in progress.
TypeOK ==
    /\ form \in Forms
    /\ run \in 1 .. MaxRuns
    /\ phase \in {"running", "cut", "failed", "done"}
    /\ at \in MasterNodes
    /\ st \in [Channels -> Values]
    /\ sub \in [Channels -> Values]
    /\ next \in [Channels -> Values]
    /\ todo \subseteq frontier /\ frontier \subseteq Nodes
    /\ retry \in 0 .. MAX_RETRIES
    /\ out \subseteq Channels
    /\ softs \in 0 .. MaxSoft

\* The channels a node reads that must have been decided before it runs.
Reads(n) ==
    CASE n \in {"case_writer", "case_questions", "schema_designer"} ->
             {"titulo"}
      [] n = "data_generator" -> {"dataset_schema"}
      [] n = "data_validator" -> {"doc7_dataset"}
      [] n = "eda_text_analyst" -> {"doc1_narrativa", "doc7_dataset"}
      [] n = "eda_chart_generator" -> {"doc2_eda", "doc7_dataset"}
      [] n = "eda_questions_generator" -> {"doc2_eda", "doc2_eda_charts"}
      [] n = "m3_content_generator" -> {"doc1_narrativa", "doc2_eda"}
      [] n = "m3_questions_generator" -> {"doc2_eda", "m3_content"}
      [] n = "m3_notebook_generator" -> {"titulo", "m3_content"}
      [] n = "m3_notebook_executor" ->
             {"doc7_dataset"} \cup IF HasNotebook THEN {"m3_notebook_code"}
                                                  ELSE {}
      [] n = "m4_content_generator" ->
             {"doc1_narrativa"} \cup IF HasEDA THEN {"doc2_eda", "m3_content"}
                                               ELSE {}
      [] n \in {"m4_questions_generator", "m4_chart_generator"} ->
             {"m4_content"}
      [] n \in {"m5_content_generator", "teaching_note_part1"} ->
             {"doc1_narrativa", "m4_content", "m4_questions"}
      [] n = "m5_questions_generator" -> {"m5_content", "doc1_preguntas"}
      [] n = "teaching_note_part2" ->
             {"doc1_preguntas", "m4_questions", "m5_questions"}
             \cup IF HasEDA THEN {"doc2_preguntas_eda", "m3_questions"} ELSE {}
      [] n = "synthesis_phase2_sync" ->
             {"doc3_teaching_note_part1", "doc3_teaching_note_part2"}
      [] OTHER -> {}
Decided(c) == sub[c].kind # "absent"

\* The order of the graph, on every route and after every resume: a node runs
\* when each output it builds on has been made, or has visibly failed.
InputsDecided == \A n \in todo : \A c \in Reads(n) : Decided(c)

\* The questions about the student's own results exist only for a notebook
\* that ran and was kept, with the metrics they speak of.
QuestionsFromRealRun ==
    next["m3_notebook_questions"].kind = "good" =>
        /\ next["m3_metrics_summary"].kind = "good"
        /\ next["m3_metrics_summary"].of = next["m3_notebook_questions"].of
        /\ next["m3_notebook_code"].kind = "good"

\* The report, the charts and the metrics made in the run that made the rows
\* speak of these rows.
DatasetDependents == {"doc2_eda", "doc2_eda_charts", "m3_metrics_summary"}
MadeTogetherAgree ==
    phase = "running" =>
        \A c \in DatasetDependents :
            /\ next[c].kind = "good"
            /\ next[c].run = next["doc7_dataset"].run
            => next[c].of = next["doc7_dataset"].of

\* A finished case has an entry for every output of its route and none of the
\* others, and the canonical output is made of the final channels.
Promised ==
    {"titulo", "doc1_narrativa", "doc1_preguntas", "m4_content",
     "m4_questions", "m4_charts", "m5_content", "m5_questions",
     "doc3_teaching_note_part1", "doc3_teaching_note_part2",
     "doc3_teaching_note"}
    \cup (IF HasEDA THEN {"dataset_schema", "doc7_dataset", "doc2_eda",
                          "doc2_eda_charts", "doc2_preguntas_eda",
                          "m3_content", "m3_questions"} ELSE {})
    \cup IF HasNotebook THEN {"m3_notebook_code"} ELSE {}
Optional == IF IsExecuted THEN {"m3_metrics_summary", "m3_notebook_questions"}
                          ELSE {}
FinishedIsComplete ==
    phase = "done" =>
        /\ \A c \in Promised : st[c].kind # "absent"
        /\ \A c \in Channels \ (Promised \cup Optional) : st[c] = Absent
        /\ out = Content

\* The outputs that are made once. The others are made again on each run (the
\* dataset, the composed note) or may be corrected by the executor.
Kept == {RequiredOutput[n] : n \in DOMAIN RequiredOutput}
        \ {"m3_notebook_code"}
KeptRun == [c \in Kept |-> IF is_resumable_state_value(st[c])
                           THEN st[c].run ELSE 0]
Ledger == INSTANCE CaseLedger WITH Outputs <- Kept, made <- KeptRun

\* The checkpoint is a ledger of paid work: a resume neither loses nor makes
\* again an output it has kept, and a cut only loses the flow it fell into.
KeepsPaidWork == Ledger!Spec

\* Every run ends, also one whose dataset is never good enough.
EveryRunEnds == phase = "running" ~> phase # "running"

\* Why EveryRunEnds: each step of a run leaves fewer to go, the retries of the
\* dataset included. How many supersteps of its flow may follow a node's,
Distance ==
    [case_architect |-> 2, case_writer |-> 1, case_questions |-> 1,
     doc1_complete |-> 0,
     schema_designer |-> 6, data_generator |-> 5, data_validator |-> 4,
     eda_text_analyst |-> 3, eda_chart_generator |-> 2,
     eda_questions_generator |-> 1, eda_phase2_sync |-> 0,
     m3_content_generator |-> 4, m3_questions_generator |-> 1,
     m3_notebook_generator |-> 3, m3_notebook_executor |-> 2,
     m3_notebook_questions_generator |-> 1, m3_sync |-> 0,
     m4_content_generator |-> 2, m4_questions_generator |-> 1,
     m4_chart_generator |-> 1, m4_sync |-> 0,
     m5_content_generator |-> 4, teaching_note_part1 |-> 4,
     synthesis_phase1_sync |-> 3, m5_questions_generator |-> 2,
     teaching_note_part2 |-> 1, synthesis_phase2_sync |-> 0]
Ahead(F) == IF F = {} THEN 0
            ELSE CHOOSE d \in 0 .. 6 : /\ \E n \in F : Distance[n] = d
                                      /\ \A n \in F : Distance[n] <= d

\* and how many more for the retries left, of two supersteps each: those of
\* the rows that are yet to be validated, or have been sent back.
ForRetries ==
    IF frontier \cap {"schema_designer", "data_generator", "data_validator"} = {}
    THEN 0
    ELSE IF "data_validator" \in frontier /\ todo = {}
         THEN IF retry = 0 THEN 0 ELSE 2 * (MAX_RETRIES - retry) + 2
         ELSE 2 * (MAX_RETRIES - retry)
SuperstepsLeft == Ahead(frontier) + ForRetries

\* A superstep has at most two nodes, a flow at most eleven supersteps.
MasterAhead == [input_adapter |-> 7, doc1_flow |-> 6,
                output_adapter_intermediate |-> 5, eda_flow |-> 4,
                m3_flow |-> 3, m4_flow |-> 2, synthesis_flow |-> 1,
                output_adapter_final |-> 0]
StepsLeft == IF phase # "running" THEN 0
             ELSE 1 + 33 * MasterAhead[at] + 3 * SuperstepsLeft
                    + Cardinality(todo)

\* Why EveryRunEnds: every step of a run leaves it fewer steps to take, and
\* every superstep its flow fewer supersteps, whatever fails, is skipped on a
\* resume or is sent back by the validator of the dataset (MAX_RETRIES).
RunsAreShort ==
    [][/\ GraphStep => StepsLeft \in Nat /\ StepsLeft' < StepsLeft
       /\ Superstep => SuperstepsLeft' < SuperstepsLeft]_vars

\* m3_notebook_executor: "a runtime-broken notebook is never shipped, only a
\* placeholder". The notebook a finished case ships, if it is not the
\* placeholder, ran on the rows the case ships.
ShippedNotebookRan ==
    /\ phase = "done" /\ IsExecuted
    /\ st["m3_notebook_code"].kind = "good"
    /\ st["m3_metrics_summary"].kind = "good"
    => st["m3_metrics_summary"].of = st["doc7_dataset"].of
=============================================================================
