-------------------------- MODULE MCIsolatedParser -------------------------
\* Seven files: supported ones, one of another language, one too large, and one
\* past the byte ceiling of the profile.
EXTENDS IsolatedParser

In(bytes, supported) == [bytes |-> bytes, supported |-> supported]

MCInputs == <<In(1, TRUE), In(1, FALSE), In(1, TRUE), In(3, TRUE), In(1, TRUE),
              In(2, TRUE), In(1, TRUE)>>
=============================================================================
