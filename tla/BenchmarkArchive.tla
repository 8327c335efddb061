-------------------------- MODULE BenchmarkArchive --------------------------
(***************************************************************************)
(* The archives of a finished run (productization.py, write_archive and    *)
(* verify_archive; cli.py, archive): several commands may write to the     *)
(* same directory, each may be killed in the middle of a file, and what    *)
(* was written may be damaged later.  Verification sees the directory at   *)
(* one moment.                                                             *)
(*                                                                         *)
(* The content of a file is a value, and its hash is the value itself.     *)
(* The candidate files are taken together: until the last of them is       *)
(* written they are partial.                                               *)
(***************************************************************************)
EXTENDS BenchmarkReport

CONSTANTS
  Writers,      \* archive commands
  ArchivedRows  \* bound: the rows of the runs that are archived

VARIABLES
  files,        \* the archive directory
  extra,        \* whether it holds a file that no command wrote
  writers,      \* where each command is, and the export it writes
  damages

archiveVars == <<files, extra, writers, damages>>

Files == {"candidates", "results", "report", "manifest"}
Missing == [is |-> "missing"]
Partial == [is |-> "partial"]
Whole(value) == [is |-> "whole", value |-> value]

-----------------------------------------------------------------------------
(* What is written. *)

\* BenchmarkArtifacts: the document, and the sources under the names it refers to.
Artifacts(status) ==
  [document |-> Document(status), status |-> status, candidates |-> Generated(result_rows, Samples)]

\* The report names the hash of the results and the winners.
render_report(artifacts) == [results |-> artifacts, winners |-> _winners_section(artifacts.document, TRUE)]

Manifest(artifacts) ==
  [results |-> Whole(artifacts), report |-> Whole(render_report(artifacts)),
   candidates |-> Whole(artifacts.candidates)]

Content(artifacts, file) ==
  Whole(CASE file = "candidates" -> artifacts.candidates
          [] file = "results" -> artifacts
          [] file = "report" -> render_report(artifacts)
          [] file = "manifest" -> Manifest(artifacts))

Then == [check |-> "candidates", candidates |-> "results", results |-> "report", report |-> "manifest",
         manifest |-> "done"]

_verify_file_hash(directory, file, expected) == directory[file] = expected

\* The results refer to the candidates of the manifest, each with the hash of its source.
_verify_candidate_sources(directory, manifest) ==
  directory["results"].value.candidates = manifest.candidates.value

\* A mistaken form: the report is taken as it is.
verify_archive_SkipsReport(directory, unlisted) ==
  /\ directory["manifest"].is = "whole" /\ ~unlisted
  /\ LET manifest == directory["manifest"].value
     IN /\ \A f \in {"results", "candidates"} : _verify_file_hash(directory, f, manifest[f])
        /\ _verify_candidate_sources(directory, manifest)

\* The manifest can be read, no other file is there than it lists, and each has its hash.
verify_archive(directory, unlisted) ==
  /\ directory["manifest"].is = "whole" /\ ~unlisted
  /\ LET manifest == directory["manifest"].value
     IN /\ \A f \in {"results", "report", "candidates"} : _verify_file_hash(directory, f, manifest[f])
        /\ _verify_candidate_sources(directory, manifest)

-----------------------------------------------------------------------------
(* The commands. *)

At(w, pc) == writers[w].pc = pc
Go(w, pc) == writers' = [writers EXCEPT ![w].pc = pc]

\* _export of a run that is not terminal is an error.
archive(w) ==
  /\ At(w, "idle") /\ run \in _TERMINAL_RUNS
  /\ writers' = [writers EXCEPT ![w] = [pc |-> "build", export |-> run]]
  /\ UNCHANGED <<files, extra, damages>>

export(w) ==
  /\ At(w, "build")
  /\ writers' = [writers EXCEPT ![w] = [pc |-> "check", export |-> Artifacts(@.export)]]
  /\ UNCHANGED <<files, extra, damages>>

\* An archive directory that is not empty is refused. The directory of the candidates is
\* made before any of them is written.
write_archive(w) ==
  /\ At(w, "check")
  /\ Go(w, IF extra \/ \E f \in Files : files[f] # Missing THEN "refused" ELSE Then["check"])
  /\ UNCHANGED <<files, extra, damages>>

\* A file is truncated before it is written, which can be seen or not.
begin_file(w, file) ==
  /\ At(w, file)
  /\ files' = [files EXCEPT ![file] = IF file = "candidates" /\ writers[w].export.candidates = {}
                                      THEN Whole({}) ELSE Partial]
  /\ files' # files
  /\ UNCHANGED <<writers, extra, damages>>

write_file(w, file) ==
  /\ At(w, file)
  /\ files' = [files EXCEPT ![file] = Content(writers[w].export, file)]
  /\ Go(w, Then[file])
  /\ UNCHANGED <<extra, damages>>

\* The command is killed.
Die(w) ==
  /\ ~ \E pc \in {"idle", "done", "refused", "dead"} : At(w, pc)
  /\ Go(w, "dead")
  /\ UNCHANGED <<files, extra, damages>>

NoFile(f) == files[f] = Missing \/ (f = "candidates" /\ files[f] = Whole({}))

\* Once: a file is altered or removed, or another one is put beside them.
Damage ==
  /\ damages = 0 /\ damages' = 1
  /\ \/ \E f \in Files : /\ ~NoFile(f)
                         /\ files' \in {[files EXCEPT ![f] = Partial], [files EXCEPT ![f] = Missing]}
                         /\ UNCHANGED extra
     \/ extra' = TRUE /\ UNCHANGED files
  /\ UNCHANGED writers

Untouched == \A w \in Writers : At(w, "idle")

ArchiveInit ==
  /\ Init
  /\ files = [f \in Files |-> Missing] /\ extra = FALSE /\ damages = 0
  /\ writers = [w \in Writers |-> [pc |-> "idle", export |-> "none"]]

\* Either reports are read or archives are written (bound).
ArchiveNext ==
  \/ Untouched /\ Next /\ UNCHANGED archiveVars
  \/ /\ exports = 0 /\ \A s \in Samples : rows[s] \in ArchivedRows
     /\ \E w \in Writers : \/ archive(w) \/ export(w) \/ write_archive(w) \/ Die(w)
                           \/ \E f \in Files : begin_file(w, f) \/ write_file(w, f)
     /\ UNCHANGED vars
  \/ ~Untouched /\ Damage /\ UNCHANGED vars

ArchiveSpec == ArchiveInit /\ [][ArchiveNext]_<<vars, archiveVars>>

-----------------------------------------------------------------------------
\* An archive that verifies is a whole export of the run and nothing else, with the
\* winners that the rows name for ever, whichever commands were killed while they wrote it
\* or over it and whatever happened to it since; and when a command has finished and no
\* other is or was interrupted in the same directory, the archive verifies
\* (productization.py, write_archive, verify_archive).
ArchiveIsWhole ==
  /\ verify_archive(files, extra) =>
       /\ ~extra /\ \A f \in Files : files[f].is = "whole"
       /\ files["candidates"].value = Generated(rows, Samples)
       /\ files["results"].value.document = Document(run)
       /\ LET w == select_winners(Board(rows), TRUE)
          IN files["report"].value.winners = <<w.observed, w.eligible>>
  /\ /\ damages = 0
     /\ \E w \in Writers : At(w, "done")
     /\ \A w \in Writers : \E pc \in {"idle", "build", "check", "refused", "done"} : At(w, pc)
     => verify_archive(files, extra)

\* What is called final stays true, where it was answered and where it was archived.
FinalReportsAreKept == FinalReportsStay /\ ArchiveIsWhole

=============================================================================
