------------------------------ MODULE MCGitLab -------------------------------
EXTENDS GitLab
\* The constants are given in MCGitLab_run.cfg; the ids are model values.
=============================================================================
