------------------------------ MODULE MCStream ------------------------------
EXTENDS PrintStream
CONSTANT Short, Long
MCLineBytes == [k \in 1..FileLen |-> IF k = FileLen THEN Long ELSE Short]
=============================================================================
