---------------------------- MODULE MCInstaller ----------------------------
\* Three data files: one that the second release changes, one that it drops for a new one.
EXTENDS Installer

MCReleases == <<[a |-> 1, b |-> 1, c |-> 0], [a |-> 2, b |-> 0, c |-> 2]>>

\* The second release is taken back, and released again.
MCReverting == MCReleases \o MCReleases
=============================================================================
