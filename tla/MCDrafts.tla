------------------------------ MODULE MCDrafts ------------------------------
(* Instances of Drafts for TLC.                                            *)
EXTENDS Drafts

CONSTANTS summary, conclusion, name

\* The fields autosaved on the page of the contents and on that of the report.
MCFields == {summary, conclusion, name}
MCForms == {{summary, conclusion}, {name}}

\* The first text, if it is typed as the summary, is longer than _TEXT_CAP.
MCLong == {<<summary, 1>>}
=============================================================================
