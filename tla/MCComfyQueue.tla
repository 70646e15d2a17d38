----------------------------- MODULE MCComfyQueue -----------------------------
EXTENDS ComfyQueue

Text == <<"user", "text">>
Plain == [prefixed |-> TRUE, tools |-> FALSE, n |-> 0, stop |-> "none", messages |-> <<Text>>,
          stream |-> FALSE]
MCQueries == {Plain, [Plain EXCEPT !.stream = TRUE],
              [Plain EXCEPT !.messages = <<Text, <<"tool", "text">> >>]}
===============================================================================
