------------------------------ MODULE MCTsharkRun ------------------------------
\* A capture whose second line of output lacks fields.
EXTENDS TsharkRun, Sequences

MCLines == <<"packet", "short", "packet">>
===============================================================================
