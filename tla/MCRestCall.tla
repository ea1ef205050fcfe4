----------------------------- MODULE MCRestCall -----------------------------
(* Every operation of the client wrapper, and callbacks of every kind.      *)
EXTENDS RestCall

MCCallback == {<<>>, <<200, TRUE>>, <<200, FALSE>>, <<204, FALSE>>, <<404, FALSE>>,
               <<409, TRUE>>, <<500, FALSE>>}

MCCalled == Operation
=============================================================================
