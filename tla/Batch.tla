-------------------------------- MODULE Batch --------------------------------
(***************************************************************************)
(* One invocation of dis86 (dis86/src/app.rs run, app_analyze.rs,          *)
(* report.rs): the argument checks, the preflight, the selection of        *)
(* functions, one decompile per function with its panics contained, the    *)
(* report and the exit code.  Decoding and validation are those of         *)
(* Preflight; what control-flow structuring, AST construction and the C    *)
(* generator make of a function that was lowered is an outcome of its own  *)
(* (modules ControlFlow, AstBuild and SsaPipeline look inside).            *)
(***************************************************************************)
EXTENDS BlockBuild

CONSTANTS Scenarios    \* families of inputs: [cfgs, images, args]

Selections == [kind : {"function", "segment", "none", "both"}, name : STRING]
              \cup [kind : {"range"}, start : Nat \cup {None}, end : Nat \cup {None}]
ASSUME ScenarioAssumption ==
  \A s \in Scenarios : /\ s.cfgs \subseteq Configs /\ s.images \subseteq Images
                       /\ s.args \subseteq [flags : SUBSET STRING, select : Selections]

VARIABLES
  cfg, image, args,
  pc,
  todo,               \* specs still to decompile
  ledger,             \* TranslationLedger.segments
  globals,            \* TranslationLedger.global_failures, their number
  failures,
  all_code,           \* the functions in the generated text
  preflight_failed,
  rc,                 \* exit code, or None while running
  code_file,          \* what --emit-code wrote, Absent, or Lost if it could not be written
  report_file         \* what --report wrote, or Unwritten

input == <<cfg, image, args>>
vars == <<cfg, image, args, pc, todo, ledger, globals, failures, all_code,
          preflight_failed, rc, code_file, report_file>>

Absent == <<"(absent)">>
Lost == <<"(lost)">>
Unwritten == [written |-> FALSE]
Aborted == 101    \* the exit code of a panic that is not caught

Has(flag) == flag \in args.flags
report_mode == Has("report")
has_emit_flags == args.flags \cap {"emit_dis", "emit_ast", "emit_code"} # {}

---------------------------------------------------------------------------
(* report.rs *)

Segments == {Code} \cup {cfg.funcs[i].seg : i \in DOMAIN cfg.funcs}
                   \cup UNION {{r.seg : r \in ToSet(cfg.funcs[i].regions)} : i \in DOMAIN cfg.funcs}
Causes == {"DECODE_ERROR", "CALL_TARGET_IN_DATA", "CODEGEN_FAILURE", "CONFIG_ERROR",
           "INTERNAL_PANIC"}
EmptySegment ==
  [configured |-> 0, attempted |-> 0, translated |-> 0, failed |-> 0,
   causes |-> [x \in Causes |-> 0], blockers |-> [x \in Causes |-> 0]]

is_blocker(cause) == cause \in {"DECODE_ERROR", "CALL_TARGET_IN_DATA"}

attempt(l, seg) == [l EXCEPT ![seg].attempted = @ + 1]
translated(l, seg) == [l EXCEPT ![seg].translated = @ + 1]
set_configured(l, seg, n) == [l EXCEPT ![seg].configured = n]
failure(l, seg, cause) ==
  [l EXCEPT ![seg].failed = @ + 1, ![seg].causes[cause] = @ + 1,
            ![seg].blockers[cause] = @ + IF is_blocker(cause) THEN 1 ELSE 0]

---------------------------------------------------------------------------
Init ==
  /\ \E s \in Scenarios : cfg \in s.cfgs /\ image \in s.images /\ args \in s.args
  /\ pc = "arguments" /\ todo = <<>> /\ globals = 0 /\ failures = 0
  /\ ledger = [seg \in Segments |-> EmptySegment]
  /\ all_code = <<>> /\ preflight_failed = FALSE
  /\ rc = None /\ code_file = Absent /\ report_file = Unwritten

Stop(code) ==
  /\ pc' = "done" /\ rc' = code
  /\ UNCHANGED <<input, todo, ledger, globals, failures, all_code, preflight_failed,
                 code_file, report_file>>

\* Combinations of modes run refuses.
Conflict ==
  \/ /\ Has("validate_config")
     /\ Has("analyze") \/ has_emit_flags \/ args.select.kind = "range"
  \/ /\ Has("infer_abi")
     /\ Has("analyze") \/ Has("validate_config") \/ has_emit_flags \/ Has("build_pin_all")
  \/ report_mode /\ (Has("analyze") \/ Has("validate_config") \/ Has("infer_abi"))

\* validation_scope: the two names exclude each other.
validation_scope ==
  IF args.select.kind \in {"function", "segment"} THEN args.select
  ELSE [kind |-> "all", name |-> ""]

Refuse ==
  /\ pc = "arguments"
  /\ Conflict \/ (~Has("analyze") /\ args.select.kind = "both")
  /\ Stop(1)

\* --validate-config: the verdict is the exit code.
Validate ==
  /\ pc = "arguments" /\ ~Conflict /\ args.select.kind # "both" /\ Has("validate_config")
  /\ Stop(IF should_fail(validate_config(cfg, image, validation_scope), Has("strict"))
          THEN 1 ELSE 0)

\* --analyze: the summary takes every configured function.
BeginSummary ==
  /\ pc = "arguments" /\ ~Conflict /\ Has("analyze")
  /\ ledger' = [seg \in Segments |->
                  [EmptySegment EXCEPT !.configured = Len(func_lookup_by_seg(cfg, seg))]]
  /\ todo' = cfg.funcs
  /\ pc' = "summary"
  /\ UNCHANGED <<input, globals, failures, all_code, preflight_failed, rc, code_file, report_file>>

Batchwise == ~Conflict /\ args.select.kind # "both" /\ ~Has("validate_config") /\ ~Has("analyze")

\* Mutant: the verdict is forgotten where the run goes on.
CheckFirst_forgets ==
  /\ pc = "arguments" /\ Batchwise
  /\ LET report == IF args.select.kind \in {"function", "segment"}
                   THEN validate_config(cfg, image, validation_scope) ELSE {}
         fails == should_fail(report, Has("strict"))
         goesOn == ~fails \/ Has("infer_abi") \/ report_mode
     IN /\ globals' = IF fails /\ report_mode THEN Cardinality(report) ELSE 0
        /\ pc' = IF goesOn THEN "configure" ELSE "done"
        /\ rc' = IF goesOn THEN None ELSE 1
  /\ UNCHANGED <<input, todo, ledger, failures, all_code, preflight_failed, code_file, report_file>>

\* The preflight of --name and --codeseg-name.  A report or an inference
\* goes on all the same.
Verdict(report, fails) ==
  LET goesOn == ~fails \/ Has("infer_abi") \/ report_mode
  IN /\ preflight_failed' = fails
     /\ globals' = IF fails /\ report_mode
                   THEN Cardinality({d \in report : d.severity = "error" \/ Has("strict")}) ELSE 0
     /\ pc' = IF goesOn THEN "configure" ELSE "done"
     /\ rc' = IF goesOn THEN None ELSE 1
Preflighted(report) == Verdict(report, should_fail(report, Has("strict")))
CheckFirst ==
  /\ pc = "arguments" /\ Batchwise
  /\ Preflighted(IF args.select.kind \in {"function", "segment"}
                 THEN validate_config(cfg, image, validation_scope) ELSE {})
  /\ UNCHANGED <<input, todo, ledger, failures, all_code, code_file, report_file>>

\* configure_report_segments.
Configure ==
  /\ pc = "configure"
  /\ LET sel == args.select
         seg == IF sel.kind = "function" THEN func_lookup_by_name(cfg, sel.name).seg
                ELSE code_seg_lookup_by_name(cfg, sel.name).seg
     IN ledger' =
          IF ~report_mode THEN ledger
          ELSE IF sel.kind = "range"
          THEN IF sel.start = None THEN ledger ELSE set_configured(ledger, Code, 1)
          ELSE IF sel.kind = "none"
               \/ (sel.kind = "function" /\ func_lookup_by_name(cfg, sel.name) = NotFound)
               \/ (sel.kind = "segment" /\ code_seg_lookup_by_name(cfg, sel.name) = NotFound)
          THEN ledger
          ELSE set_configured(ledger, seg, Len(Selected(cfg, sel)))
  /\ pc' = "select"
  /\ UNCHANGED <<input, todo, globals, failures, all_code, preflight_failed, rc, code_file, report_file>>

---------------------------------------------------------------------------
(* The selection *)

RangeOK == /\ args.select.start # None /\ args.select.end # None
           /\ contains_region(Region(Code, args.select.start, Code, args.select.end))
SelectionExists ==
  CASE args.select.kind = "range" -> RangeOK
    [] args.select.kind = "function" -> func_lookup_by_name(cfg, args.select.name) # NotFound
    [] args.select.kind = "segment" -> code_seg_lookup_by_name(cfg, args.select.name) # NotFound
    [] OTHER -> FALSE

\* infer_specs: functions without a sound range become failures.
InferTurn(x, f) ==
  IF infer_spec(f).ok THEN [x EXCEPT !.specs = Append(@, from_func(f))]
  ELSE [x EXCEPT !.failed = Append(@, f)]
Inferred ==
  IF args.select.kind = "range"
  THEN [specs |-> <<from_start_and_end(args.select.start, args.select.end)>>, failed |-> <<>>]
  ELSE FoldLeft(InferTurn, [specs |-> <<>>, failed |-> <<>>], Selected(cfg, args.select))

\* write_report; the file may not be writable.
WriteReport(l, g) ==
  report_file' \in IF report_mode
                   THEN {[written |-> TRUE, ledger |-> l, globals |-> g], Unwritten}
                   ELSE {Unwritten}

SelectionFails ==
  /\ pc = "select" /\ ~SelectionExists
  /\ globals' = IF report_mode THEN globals + 1 ELSE globals
  /\ WriteReport(ledger, globals')
  /\ pc' = "done" /\ rc' = 1
  /\ UNCHANGED <<input, todo, ledger, failures, all_code, preflight_failed, code_file>>

Booked(l, f) == failure(attempt(l, infer_spec(f).seg), infer_spec(f).seg, "CONFIG_ERROR")

Select ==
  /\ pc = "select" /\ SelectionExists /\ (Has("infer_abi") \/ report_mode)
  /\ todo' = Inferred.specs
  /\ ledger' = IF report_mode THEN FoldLeft(Booked, ledger, Inferred.failed) ELSE ledger
  /\ pc' = IF Has("infer_abi") THEN "infer" ELSE "decompile"
  /\ UNCHANGED <<input, globals, failures, all_code, preflight_failed, rc, code_file, report_file>>

\* Spec::from_func is not inside the catch: a function without an end, which
\* the preflight should have stopped, takes the process down.
SelectCode ==
  /\ pc = "select" /\ SelectionExists /\ ~Has("infer_abi") /\ ~report_mode
  /\ LET S == Selected(cfg, args.select)
         panics == args.select.kind # "range" /\ \E i \in DOMAIN S : from_func_panics(S[i])
     IN /\ todo' = IF args.select.kind = "range"
                   THEN <<from_start_and_end(args.select.start, args.select.end)>>
                   ELSE [i \in DOMAIN S |-> from_func(S[i])]
        /\ pc' = IF panics THEN "done" ELSE "decompile"
        /\ rc' = IF panics THEN Aborted ELSE None
  /\ UNCHANGED <<input, ledger, globals, failures, all_code, preflight_failed, code_file, report_file>>

---------------------------------------------------------------------------
(* One function *)

\* What the phases after lowering may do with a function; the file of an
\* --emit-* stage that cannot be written panics as well.
Later_phases == {"ok", "ast_error", "gen_error", "panic"}

\* decompile_spec: [kind |-> "ok" | "error" | "panic", cause, emits].
decompile_decoded(decoded, later) ==
  LET ok(emits) == [kind |-> "ok", cause |-> "", emits |-> emits]
      error(cause) == [kind |-> "error", cause |-> cause, emits |-> FALSE]
      panic == [kind |-> "panic", cause |-> "INTERNAL_PANIC", emits |-> FALSE]
  IN IF ~decoded.ok THEN error(decoded.cause)
     ELSE IF later = "panic" THEN panic
     ELSE IF Has("emit_dis") /\ ~report_mode THEN ok(FALSE)
     ELSE IF CallModePanics(cfg, image, decoded.at) THEN panic
     ELSE IF later = "ast_error" THEN error("CODEGEN_FAILURE")
     ELSE IF Has("emit_ast") THEN ok(FALSE)
     ELSE IF ~Has("emit_code") THEN ok(FALSE)
     ELSE IF later = "gen_error" THEN error("CODEGEN_FAILURE")
     ELSE ok(TRUE)
decompile_spec(s, later) == decompile_decoded(decode_regions(cfg, image, s), later)

\* One turn of the loop; a panic is caught and the text it left truncated.
Decompile(later) ==
  /\ pc = "decompile" /\ todo # <<>>
  /\ LET s == Head(todo)
         out == decompile_spec(s, later)
         l == IF report_mode THEN attempt(ledger, s.seg) ELSE ledger
     IN /\ failures' = failures + IF out.kind = "ok" THEN 0 ELSE 1
        /\ all_code' = IF out.emits THEN Append(all_code, s.name) ELSE all_code
        /\ ledger' = IF ~report_mode THEN ledger
                     ELSE IF out.kind = "ok" THEN translated(l, s.seg)
                     ELSE failure(l, s.seg, out.cause)
  /\ todo' = Tail(todo)
  /\ UNCHANGED <<input, pc, globals, preflight_failed, rc, code_file, report_file>>

\* Mutant: an attempt is booked where its region lies.
Summarize_booked_late(later) ==
  /\ pc = "summary" /\ todo # <<>>
  /\ LET f == Head(todo)
         decoded == decode_regions(cfg, image, from_func(f))
         l == attempt(ledger, infer_spec(f).seg)
     IN ledger' =
          IF ~infer_spec(f).ok THEN failure(l, infer_spec(f).seg, "CONFIG_ERROR")
          ELSE IF ~decoded.ok THEN failure(l, f.seg, decoded.cause)
          ELSE IF CallModePanics(cfg, image, decoded.at) \/ later = "panic"
          THEN failure(l, f.seg, "INTERNAL_PANIC")
          ELSE IF later = "ast_error" THEN failure(l, f.seg, "CODEGEN_FAILURE")
          ELSE translated(l, f.seg)
  /\ todo' = Tail(todo)
  /\ UNCHANGED <<input, pc, globals, failures, all_code, preflight_failed, rc, code_file, report_file>>

\* summarize_function of --analyze.
Summarize(later) ==
  /\ pc = "summary" /\ todo # <<>>
  /\ LET f == Head(todo)
         decoded == decode_regions(cfg, image, from_func(f))
         l == attempt(ledger, f.seg)
     IN ledger' =
          IF ~infer_spec(f).ok THEN failure(l, f.seg, "CONFIG_ERROR")
          ELSE IF ~decoded.ok THEN failure(l, f.seg, decoded.cause)
          ELSE IF CallModePanics(cfg, image, decoded.at) \/ later = "panic"
          THEN failure(l, f.seg, "INTERNAL_PANIC")
          ELSE IF later = "ast_error" THEN failure(l, f.seg, "CODEGEN_FAILURE")
          ELSE translated(l, f.seg)
  /\ todo' = Tail(todo)
  /\ UNCHANGED <<input, pc, globals, failures, all_code, preflight_failed, rc, code_file, report_file>>

SummaryDone ==
  /\ pc = "summary" /\ todo = <<>>
  /\ Stop(0)

\* --infer-abi: build_all is not inside a catch.  A function that does not
\* decode is a row of the table and fails the run.
Infer(later) ==
  /\ pc = "infer"
  /\ LET decoded(s) == decode_regions(cfg, image, s)
         panics == later = "panic" \/ \E i \in DOMAIN todo :
                     decoded(todo[i]).ok /\ CallModePanics(cfg, image, decoded(todo[i]).at)
         failed == Inferred.failed # <<>> \/ \E i \in DOMAIN todo : ~decoded(todo[i]).ok
     IN Stop(IF panics /\ todo # <<>> THEN Aborted
             ELSE IF preflight_failed \/ failed THEN 1 ELSE 0)

\* The end of run: the report, then the code, which needs everything to be
\* well.  write_to_path is not inside the catch: a code file that cannot be
\* written takes the process down.
Finish ==
  /\ pc = "decompile" /\ todo = <<>>
  /\ WriteReport(ledger, globals)
  /\ LET bad == failures # 0 \/ (report_mode /\ report_file' = Unwritten) \/ preflight_failed
     IN \/ /\ rc' = IF bad THEN 1 ELSE 0
           /\ code_file' = IF ~bad /\ Has("emit_code") THEN all_code ELSE Absent
        \/ /\ ~bad /\ Has("emit_code")
           /\ rc' = Aborted /\ code_file' = Lost
  /\ pc' = "done"
  /\ UNCHANGED <<input, todo, ledger, globals, failures, all_code, preflight_failed>>

Next ==
  \/ Refuse \/ Validate \/ BeginSummary \/ CheckFirst \/ Configure
  \/ SelectionFails \/ Select \/ SelectCode
  \/ \E later \in Later_phases : Decompile(later) \/ Summarize(later) \/ Infer(later)
  \/ SummaryDone \/ Finish
  \/ pc = "done" /\ UNCHANGED vars

Spec == Init /\ [][Next]_vars

---------------------------------------------------------------------------
(* Properties *)

\* Where start splits an instruction of its region, validation and decoding
\* read different instructions.
Aligned(f, code) ==
  \A i \in DOMAIN code : RegionContains(code[i], f.seg, f.start) =>
       f.start \in ToSet(Linear(image, code[i].start, code[i].end).at)

Tiles(at, f, code) ==
  LET bytes == UNION {code[i].start .. code[i].end - 1 : i \in DOMAIN code}
      of(i) == at[i] .. at[i] + image[at[i]].len - 1
  IN /\ bytes = UNION {of(i) : i \in DOMAIN at}
     /\ \A i, j \in DOMAIN at : i # j => of(i) \cap of(j) = {}
     /\ at[1] = f.start

\* A function that validation passes without an error decodes: it has an end,
\* its regions lie in the image, every byte of its code and none of its data
\* belongs to exactly one instruction, and the entry comes first.  (The one
\* gap: validation decodes a region from its start, decode_regions splits it
\* at the function's start, and nothing checks that this is a boundary.)
PreflightSound ==
  pc = "arguments" =>
    \A i \in DOMAIN cfg.funcs :
      LET f == cfg.funcs[i]
          d == decode_regions(cfg, image, from_func(f))
          code == code_regions(cfg.text, effective_regions(f))
      IN ~has_errors(validate_function(cfg, image, f, TRUE)) /\ Aligned(f, code) =>
           ~from_func_panics(f) /\ infer_spec(f).ok /\ d.ok /\ Tiles(d.at, f, code)

\* What a function that decodes is built into.
Buildable(f) == ~from_func_panics(f) /\ infer_spec(f).ok
Graphs(P(_, _, _)) ==
  pc = "arguments" =>
    \A i \in DOMAIN cfg.funcs :
      LET f == cfg.funcs[i]
          d == decode_regions(cfg, image, from_func(f))
          code == code_regions(cfg.text, effective_regions(f))
      IN Buildable(f) /\ d.ok => P(code, d.at, build_once(cfg, image, code, d.at))

\* Whatever the regions, the data between them and the place of the start,
\* the block graph has every step of the code and no other; no branch is lost
\* without a warning, except into the middle of an instruction (build_once,
\* start_next_blk, start_next_region_blk, link_prestart_fallthrough).
BlocksExact ==
  LET exact(code, at, g) == EdgesComplete(cfg, image, at, g) /\ EdgesSound(cfg, image, at, g)
  IN Graphs(exact)

\* An ADC consumes a carry, a string operation a direction, only where it is
\* known on every way there, through loops and repeated operations.  (The one
\* gap: where the code before the start falls back into it and nothing else
\* branches there, the entry block has a predecessor the analyses ignore.)
FlagsEntryExact ==
  LET exact(code, at, g) ==
        Preds(g, Entry(at)) = {} =>
          FlagsMatch(cfg, image, at, g, build(image, at, g), From(cfg, image, at))
  IN Graphs(exact)

Total(field, l) == SumFunction([seg \in DOMAIN l |-> l[seg][field]])

\* run's exit code 0 means that every function asked for went through: with
\* --emit-code the file holds each of them once, in configuration order, with
\* --report each is counted as translated.  (An --emit-* flag for an earlier
\* stage stops there, and leaves the --emit-code file empty.)
SuccessIsComplete ==
  rc = 0 /\ Batchwise /\ ~Has("infer_abi") =>
    LET names == IF args.select.kind = "range" THEN <<"range">>
                 ELSE [i \in DOMAIN Selected(cfg, args.select) |-> Selected(cfg, args.select)[i].name]
    IN /\ Has("emit_code") /\ ~Has("emit_dis") /\ ~Has("emit_ast") => code_file = names
       /\ report_mode =>
            /\ report_file.written
            /\ Len(names) = Total("translated", report_file.ledger)

\* The report adds up: per segment every attempt was translated or failed,
\* every failure has a cause, and over the selection nothing configured was
\* skipped or counted twice, whatever failed on the way.  For --analyze this
\* holds segment by segment.
LedgerBalances ==
  LET l == IF report_file.written THEN report_file.ledger ELSE ledger
  IN (report_file.written /\ SelectionExists) \/ (rc = 0 /\ Has("analyze")) =>
       /\ \A seg \in Segments :
            /\ l[seg].attempted = l[seg].translated + l[seg].failed
            /\ l[seg].failed = SumFunction(l[seg].causes)
            /\ Has("analyze") => l[seg].attempted = l[seg].configured
       /\ Total("attempted", l) = Total("configured", l)

\* A report that exits 0 has nothing to complain of, and one that complains
\* does not exit 0: failures of the preflight, of the selection and of single
\* functions all reach the exit code.  (A clean report does not help a code
\* file that is lost after it.)
VerdictReachesExit ==
  report_file.written /\ rc # None /\ code_file # Lost =>
    (rc = 0 <=> /\ report_file.globals = 0
                /\ \A seg \in Segments : report_file.ledger[seg].failed = 0)

\* No configuration takes the process down in a decompile, validate or
\* analyze run, a panic is contained where it happens: only a code file that
\* cannot be written does, when everything else is done and well.
NeverAborts ==
  rc = Aborted => Has("infer_abi") \/ (code_file = Lost /\ failures = 0 /\ ~preflight_failed)

\* The exit code can be relied upon: 0 means complete and without complaint,
\* and there always is one (app.rs run, main.rs).
ExitHonest == SuccessIsComplete /\ VerdictReachesExit /\ NeverAborts
=============================================================================
