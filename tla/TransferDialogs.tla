---------------------------- MODULE TransferDialogs ----------------------------
(***************************************************************************)
(* The import and the export dialog of a records page (ui components       *)
(* ImportModal and ExportModal).  Both stay mounted while they are closed, *)
(* so that what they hold outlives an opening; an import keeps running     *)
(* when its dialog is closed.                                              *)
(***************************************************************************)
EXTENDS Integers, FiniteSets

CONSTANTS
  Files,       \* files that may be imported
  Modes,       \* conflict modes: "upsert", "insert", "replace"
  Filters,     \* filters the page may be searched with
  NoFile,
  NoFilter,
  TransferBudgets  \* bounds on imports, exports and changes of the search

ASSUME TransferAssumption ==
  /\ NoFile \notin Files
  /\ NoFilter \notin Filters
  /\ "upsert" \in Modes
  /\ TransferBudgets \subseteq [{"imports", "exports", "searches"} -> Nat]

VARIABLES
  importer,  \* ImportModal: isOpen, file, mode, isUploading, result
  imports,   \* import requests in flight
  escaped,   \* history: the dialog was closed by key during an import
  exporter,  \* ExportModal: isOpen, scope, isExporting
  exports,   \* export requests in flight
  searched,  \* search.filter and whether there is a search.search
  transfers  \* what is left of the bounds

importVars == <<importer, imports, escaped>>
exportVars == <<exporter, exports>>
transferVars == <<importVars, exportVars, searched, transfers>>
Searches == [filter : Filters \cup {NoFilter}, text : BOOLEAN]

NoResult == [nr |-> 0]
UseDialog(what) == transfers[what] > 0 /\ transfers' = [transfers EXCEPT ![what] = @ - 1]

-----------------------------------------------------------------------------
(* Import.                                                                    *)

EmptyImport == [importer EXCEPT !.file = NoFile, !.uploading = FALSE, !.result = NoResult]

OpenImport ==
  /\ ~importer.open
  /\ importer' = [importer EXCEPT !.open = TRUE]
  /\ UNCHANGED <<imports, escaped, exportVars, searched, transfers>>

\* Cancel and a press outside are disabled during an import; the escape key is not.
CloseImport ==
  /\ importer.open
  /\ importer' = [EmptyImport EXCEPT !.open = FALSE]
  /\ escaped' = (escaped \/ importer.uploading)
  /\ UNCHANGED <<imports, exportVars, searched, transfers>>

ImportAnother ==
  /\ importer.open /\ importer.result # NoResult
  /\ importer' = EmptyImport
  /\ UNCHANGED <<imports, escaped, exportVars, searched, transfers>>

ImportForm == importer.open /\ importer.result = NoResult
\* Mutant: the file may be removed while it is imported.
RemoveAlwaysOffered == importer.file # NoFile

RemoveOffered == importer.file # NoFile /\ ~importer.uploading

\* Another file has to be removed before the next can be chosen.
ChooseFile(f) ==
  /\ ImportForm /\ importer.file = NoFile
  /\ importer' = [importer EXCEPT !.file = f, !.result = NoResult]
  /\ UNCHANGED <<imports, escaped, exportVars, searched, transfers>>

RemoveFile ==
  /\ ImportForm /\ RemoveOffered
  /\ importer' = [importer EXCEPT !.file = NoFile]
  /\ UNCHANGED <<imports, escaped, exportVars, searched, transfers>>

ChooseMode(m) ==
  /\ ImportForm /\ ~importer.uploading
  /\ importer' = [importer EXCEPT !.mode = m]
  /\ UNCHANGED <<imports, escaped, exportVars, searched, transfers>>

ExecuteOffered == importer.file # NoFile /\ ~importer.uploading

ExecuteImport ==
  /\ ImportForm /\ ExecuteOffered
  /\ UseDialog("imports")
  /\ importer' = [importer EXCEPT !.uploading = TRUE]
  /\ imports' = imports \cup {[answer |-> "none", import |->
       [file |-> importer.file, mode |-> importer.mode, nr |-> transfers["imports"]]]}
  /\ UNCHANGED <<escaped, exportVars, searched>>

\* The server imports the file, or refuses it, or its answer is lost.
ServeImport(i) ==
  /\ i.answer = "none"
  /\ \E answer \in {"ok", "failed"} :
       imports' = (imports \ {i}) \cup {[i EXCEPT !.answer = answer]}
  /\ UNCHANGED <<importer, escaped, exportVars, searched, transfers>>

ImportAnswered(i) ==
  /\ i.answer = "ok"
  /\ imports' = imports \ {i}
  /\ importer' = [importer EXCEPT !.result = i.import, !.uploading = FALSE]
  /\ UNCHANGED <<escaped, exportVars, searched, transfers>>

ImportFailed(i) ==
  /\ i.answer = "failed"
  /\ imports' = imports \ {i}
  /\ importer' = [importer EXCEPT !.uploading = FALSE]
  /\ UNCHANGED <<escaped, exportVars, searched, transfers>>

-----------------------------------------------------------------------------
(* Export.  The scope is chosen once, when the page is entered, and kept.     *)

HasActiveFilters == searched.filter # NoFilter \/ searched.text
ScopeShown == IF exporter.scope = "filtered" /\ ~HasActiveFilters THEN "none"
              ELSE exporter.scope

OpenExport ==
  /\ ~exporter.open
  /\ exporter' = [exporter EXCEPT !.open = TRUE]
  /\ UNCHANGED <<importVars, exports, searched, transfers>>

CloseExport ==
  /\ exporter.open
  /\ exporter' = [exporter EXCEPT !.open = FALSE]
  /\ UNCHANGED <<importVars, exports, searched, transfers>>

ChooseScope(s) ==
  /\ exporter.open
  /\ s = "filtered" => HasActiveFilters
  /\ exporter' = [exporter EXCEPT !.scope = s]
  /\ UNCHANGED <<importVars, exports, searched, transfers>>

\* Mutant: the filter of the page is sent under any scope.
FilterOfThePage == searched.filter

ExportFilter == IF exporter.scope = "filtered" THEN searched.filter ELSE NoFilter

Export ==
  /\ exporter.open /\ ~exporter.exporting
  /\ UseDialog("exports")
  /\ exporter' = [exporter EXCEPT !.exporting = TRUE]
  /\ exports' = exports \cup {[scope |-> ScopeShown, filter |-> ExportFilter,
                                  listed |-> searched]}
  /\ UNCHANGED <<importVars, searched>>

\* A success closes the dialog, in whatever opening it arrives.
EndExport(x) ==
  /\ exports' = exports \ {x}
  /\ \E ok \in BOOLEAN :
       exporter' = [exporter EXCEPT !.exporting = FALSE, !.open = @ /\ ~ok]
  /\ UNCHANGED <<importVars, searched, transfers>>

SearchFor(s) ==
  /\ ~importer.open /\ ~exporter.open
  /\ UseDialog("searches")
  /\ searched' = s
  /\ UNCHANGED <<importVars, exportVars>>

-----------------------------------------------------------------------------

TransferInit ==
  /\ importer = [open |-> FALSE, file |-> NoFile, mode |-> "upsert",
                 uploading |-> FALSE, result |-> NoResult]
  /\ imports = {} /\ escaped = FALSE
  /\ searched \in Searches
  /\ exporter = [open |-> FALSE, exporting |-> FALSE,
                 scope |-> IF HasActiveFilters THEN "filtered" ELSE "all"]
  /\ exports = {}
  /\ transfers \in TransferBudgets

TransferNext ==
  \/ OpenImport \/ CloseImport \/ ImportAnother \/ RemoveFile \/ ExecuteImport
  \/ \E f \in Files : ChooseFile(f)
  \/ \E m \in Modes : ChooseMode(m)
  \/ \E i \in imports : ServeImport(i) \/ ImportAnswered(i) \/ ImportFailed(i)
  \/ OpenExport \/ CloseExport \/ Export
  \/ \E s \in {"all", "filtered"} : ChooseScope(s)
  \/ \E x \in exports : EndExport(x)
  \/ \E s \in Searches : SearchFor(s)

TransferSpec == TransferInit /\ [][TransferNext]_transferVars

-----------------------------------------------------------------------------
(* Properties.                                                                *)

\* What is being imported is what the dialog shows, one file at a time, so a
\* file is not imported twice by pressing again; closing the dialog by key
\* during an import gives that up.
ImportIsShown ==
  escaped \/ \A i \in imports :
    /\ importer.open /\ importer.uploading
    /\ i.import.file = importer.file /\ i.import.mode = importer.mode
    /\ imports = {i}

\* An export has the filter the page lists with when the dialog shows its subset as
\* chosen, and none when it shows the whole collection or no choice, whatever was
\* searched for and chosen in openings before.  The exception is a page with a search
\* text: the text is not sent, so the subset the dialog then shows is not what it
\* exports (ExportModal.tsx:151, 249-260).
ExportAsShown ==
  \A x \in exports :
    IF x.scope = "filtered" THEN x.listed.text \/ x.filter = x.listed.filter
    ELSE x.filter = NoFilter

\* What goes in and out is what the dialogs show.
TransfersAsShown == ImportIsShown /\ ExportAsShown

=============================================================================
