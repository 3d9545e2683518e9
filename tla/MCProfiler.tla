----------------------------- MODULE MCProfiler -----------------------------
EXTENDS Profiler

\* The first profiler overflows its queue; the second shows that it is alone.
ThreeThenOne == <<3, 1>>
=============================================================================
