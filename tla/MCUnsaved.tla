------------------------------- MODULE MCUnsaved -------------------------------
(* The instance of MCSetter, and whether the combinations have been changed    *)
(* since they were last written to the organ settings.                         *)
EXTENDS MCSetter

VARIABLE unsaved

UnsavedSpec ==
  /\ Init /\ unsaved = FALSE
  /\ [][/\ Next
        /\ unsaved' = (combinationVars' # combinationVars \/ (unsaved /\ ~SaveSettings))]_<<vars, unsaved>>

\* An organ whose combinations have been changed is marked as modified, so that the
\* user is asked to save it when it is closed. (GOSetter::NotifyCmbPushed)
UnsavedMarked == unsaved => organModified
===============================================================================
