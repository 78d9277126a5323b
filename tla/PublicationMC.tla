--------------------------- MODULE PublicationMC ---------------------------
(***************************************************************************)
(* Instances of Publication for TLC: topics of two bytes, integers of one, *)
(* a datagram buffer of 16 bytes, in which there is room for 9 when the    *)
(* port has four digits and for 8 when it has five.                        *)
(***************************************************************************)
EXTENDS Publication

One == <<49>>
WantedTopics == {<<97>>, <<97, 98>>}
Stacks == {<<0, 0>>, <<98, 97>>}

Say(bytes) == [payload |-> {bytes}, described |-> TRUE]

Negative == Say(<<97, 0, 0, 1, 5>>)
Largest  == Say(<<97, 98, 0, 0, 127>>)
Least    == Say(<<97, 98, 0, 1, 128>>)
TooLarge == Say(<<97, 98, 0, 0, 128>>)
Cents    == Say(<<97, 98, 1, 2, 1>>)
Point    == Say(<<97, 0, 2, 1, 42, 3>>)
Text     == Say(<<97, 0, 3, 72, 73, 0, 74>>)
Other    == Say(<<98, 0, 0, 0, 5>>)
Cut      == Say(<<97, 0, 0, 1>>)
Unknown  == Say(<<97, 0, 9, 1>>)
Stub     == Say(<<97>>)
Bare     == Say(<<97, 98>>)
Empty    == Say(<< >>)
Tight    == Say(<<97, 0, 3, 72, 73, 74, 75, 76, 77>>)
Huge     == Say(<<97, 0, 3>> \o [n \in 1 .. 14 |-> 88])
Unsaid   == [payload |-> {}, described |-> TRUE]
Untold   == [payload |-> {<<97, 0, 0, 0, 7>>}, described |-> FALSE]

AllKinds == <<Negative, Largest, Cents, Point, Text, Other, Cut, Unknown, Stub,
              Bare, Empty, Tight, Huge>>

Plain == [server_port |-> {MinPort}, source_port |-> << >>, ipv4 |-> TRUE,
          bindable |-> TRUE, wellFormed |-> TRUE, readable |-> TRUE,
          input_file |-> <<Negative, Stub, Text>>, mode |-> "all_once",
          count |-> << >>, delay |-> 0]

AnyTwo == [Plain EXCEPT !.input_file = AllKinds, !.mode = "random", !.count = <<2>>]

AllStarts ==
    {Plain, AnyTwo,
     [AnyTwo EXCEPT !.count = << >>, !.input_file = <<Point, Huge>>],
     [AnyTwo EXCEPT !.count = <<-1>>],
     [AnyTwo EXCEPT !.input_file = << >>],
     [Plain EXCEPT !.source_port = <<{MinPort}>>, !.input_file = <<Tight, Cents>>],
     [Plain EXCEPT !.source_port = <<{MaxPort}>>, !.input_file = <<Tight, Bare, Untold, Text>>],
     [Plain EXCEPT !.input_file = <<Least, Unsaid>>],
     [Plain EXCEPT !.mode = "manual", !.input_file = <<Cents, Negative>>],
     [Plain EXCEPT !.mode = "manual", !.input_file = <<Untold>>],
     [Plain EXCEPT !.delay = -1],
     [Plain EXCEPT !.ipv4 = FALSE],
     [Plain EXCEPT !.bindable = FALSE],
     [Plain EXCEPT !.server_port = {MinPort - 1}],
     [Plain EXCEPT !.source_port = <<{MaxPort + 1}>>],
     [Plain EXCEPT !.source_port = <<{}>>],
     [Plain EXCEPT !.readable = FALSE],
     [Plain EXCEPT !.wellFormed = FALSE]}

(* One of any kind, and beside it one that speaks from a port of five      *)
(* digits, or wants the port of the first.                                 *)
Started == <<AllStarts, {[Plain EXCEPT !.source_port = <<{MaxPort}>>, !.input_file = <<Text>>],
                   [Plain EXCEPT !.source_port = <<{MinPort}>>, !.input_file = <<Cents>>]}>>

(* An INT for which the int of "%d" is too small, as it is for 2^31, and a *)
(* STRING for which the server's buffer is.                                *)
StartedLarge == <<{[Plain EXCEPT !.input_file = <<TooLarge, Largest>>]},
                  {[Plain EXCEPT !.input_file = <<Text, Huge>>]}>>
=============================================================================
