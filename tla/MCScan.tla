------------------------------- MODULE MCScan -------------------------------
\* The instance of Scan that TLC checks.
EXTENDS Scan
=============================================================================
