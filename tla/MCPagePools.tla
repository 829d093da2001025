------------------------------ MODULE MCPagePools ------------------------------
EXTENDS PagePools, TLC

CONSTANTS t1, t2, v1, v2, timestamps, occlusion, pipeline_stats

MCHeaps == {SRVUAV, SAMPLER, timestamps, occlusion, pipeline_stats}

\* the samplers and the last two queries end within a page
MCNumElements ==
  [h \in MCHeaps |-> CASE h = SRVUAV -> 6 [] h = SAMPLER -> 3 [] h = timestamps -> 6
                      [] h = occlusion -> 2 [] h = pipeline_stats -> 3]

MCHeapOf == (0 :> timestamps) @@ (1 :> occlusion) @@ (2 :> pipeline_stats)
=============================================================================
