------------------------------- MODULE MCCheck -------------------------------
EXTENDS Check

\* Everything changes; the claim is never a symbolic link.
AllFiles == DOMAIN Content
PlainClaims == Content["claim"] \ {"link"}
=============================================================================
