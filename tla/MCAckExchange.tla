--------------------------- MODULE MCAckExchange ---------------------------
(* Instances of AckExchange: each Rule format, and losses at both ends of a *)
(* window, in the whole of it and nowhere.                                  *)
EXTENDS AckExchange

OneOfEach == {<<0, 1, 0>>, <<1, 1, 1, 0, 1, 0>>, <<1, 1, 1, 1, 1, 1, 1, 0>>}

EndsOf(r) ==
    LET n == r.window_size
    IN  IF r.m = 3 THEN {<<>>, Ones(n - 1) \o <<0>>, Zeros(n - 1) \o <<1>>}
        ELSE {<<>>, Ones(n), Ones(n - 1) \o <<0>>, <<0>> \o Ones(n - 1), Zeros(n)}
=============================================================================
