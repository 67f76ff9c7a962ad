------------------------------ MODULE MCEncode ------------------------------
EXTENDS Encode

\* A cover before the film and an unnamed subtitle after a good one; two tracks alike
\* and a data stream.
MCSources == {<<"cover", "video", "subtitle", "unnamed">>, <<"video", "audio", "data", "audio">>}

MCJobs ==
    {j \in JobKind : (j.search => j.goal) /\ (j.qsv => ~j.s3 /\ ~j.shrink /\ ~j.goal)
                      /\ (j.s3 => j.goal /\ ~j.search)}
=============================================================================
