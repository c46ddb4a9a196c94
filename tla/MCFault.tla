------------------------------ MODULE MCFault ------------------------------
(***************************************************************************)
(* A small instance of Fault for TLC.  Buffers of 6 (panic_action), 7      *)
(* (cmd) and 3 (filename) bytes stand for 512, 532 and 256; the pid "11"   *)
(* is three bytes so that each %p grows the command as a real pid does.    *)
(* "w" and the pid are world-writable files.                               *)
(***************************************************************************)
EXTENDS FaultExecProofs

MCChars == {"x", "w", "1", SP, "%", "e", "p"}

MCPid == <<"1", "1", "1">>

MCWritable == {<<"w">>, <<"1", "1", "1">>}

\* The templates: none, a sane one, one naming a writable binary, one with
\* the program as binary, a %e that may overflow, a %p-only overflow case,
\* and first words of FileCap - 1 and FileCap characters on both sides of
\* the is_truncated edge.
MCTemplates ==
    { << >>,
      <<"x", SP, "%", "p">>,
      <<"x", "x", SP, "%", "p">>,
      <<"x", "x", "x", SP, "x">>,
      <<"w", SP, "%", "p">>,
      <<"%", "e", SP, "%", "p">>,
      <<"x", SP, "%", "e">>,
      <<"%", "p", "%", "p", "x">> }

MCViolTemplates == MCTemplates \cup {<<"%", "p">>}

MCPrograms == { <<"x">>, <<"x", "x", "x", "x">>, <<"w">> }
=============================================================================
