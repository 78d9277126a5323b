----------------------------- MODULE Publisher -----------------------------
(***************************************************************************)
(* src/pcom_hw2_udp_client: udp_client.py and its check of ports.  A run   *)
(* parses its command line, binds a UDP socket and sends messages of its   *)
(* input file in one of three modes.  Runs go on beside one another; a     *)
(* datagram may get lost.                                                  *)
(*                                                                         *)
(* Operators named ...Bug are a plausible slip in the code they stand      *)
(* before; nothing here uses them.                                         *)
(***************************************************************************)
EXTENDS Integers, Sequences

CONSTANTS Pubs,          \* runs of udp_client.py
          CommandLines,  \* CommandLines[p]: what p may be started with, see below
          FreePorts,     \* the ports bind chooses from when asked for port 0
          MaxSends       \* bound: messages sent by one run

Port == 0 .. 65535

(* A command line is a record.  server_port is the set of the integer that *)
(* int() makes of the text, empty if it makes none; source_port and count  *)
(* are sequences, empty if the option is not given.  wellFormed: the other *)
(* arguments are what argparse's types and choices accept.  readable:      *)
(* input_file exists and is JSON; it is then a sequence of messages.  ipv4:*)
(* server_ip is an IPv4 address.  bindable: source_address is one, and one *)
(* of this host.                                                           *)
(*                                                                         *)
(* A message has a payload, a set with what base64 decodes it to, empty if *)
(* it is missing or not base64, and may lack a description.                *)
Message == [payload : SUBSET Seq(0 .. 255), described : BOOLEAN]

ASSUME PublisherAssumption ==
    /\ MaxSends \in Nat
    /\ FreePorts \subseteq Port \ {0}
    /\ \A p \in Pubs : \A a \in CommandLines[p] :
          /\ a.mode \in {"all_once", "manual", "random"}
          /\ a.input_file \in Seq(Message)
          /\ a.count \in Seq(Int)
          /\ a.source_port \in Seq(SUBSET Int)

VARIABLES
    argv,     \* argv[p]: the command line of run p
    stage,    \* stage[p]: where main is
    port,     \* port[p]: the port of sock, 0 before there is one
    sent,     \* sent[p]: the positions in input_file of what was sent
    posted,   \* all that went through sendto, in order
    udpq      \* the datagrams in the server's socket, as positions in posted

publishers == <<argv, stage, port, sent>>

PublisherInit ==
    /\ argv \in [Pubs -> UNION {CommandLines[p] : p \in Pubs}]
    /\ \A p \in Pubs : argv[p] \in CommandLines[p]
    /\ stage = [p \in Pubs |-> "parse"]
    /\ port = [p \in Pubs |-> 0]
    /\ sent = [p \in Pubs |-> << >>]
    /\ posted = << >> /\ udpq = << >>

-----------------------------------------------------------------------------
(* utils/unpriv_port.py *)

MinPort == 1024
MaxPort == 65535

UnprivilegedPort(value) == {v \in value : MinPort <= v /\ v <= MaxPort}

(* The default of 0 is an int, and argparse checks only text.              *)
SourcePort(a) == IF a.source_port = << >> THEN {0}
                 ELSE UnprivilegedPort(a.source_port[1])

-----------------------------------------------------------------------------
(* main *)

Ends(p, how) == /\ stage' = [stage EXCEPT ![p] = how]
                /\ UNCHANGED <<argv, port, sent, posted, udpq>>

Accepted(a) == /\ a.wellFormed /\ a.readable
               /\ UnprivilegedPort(a.server_port) # {}
               /\ SourcePort(a) # {}

ParseArgs(p) == /\ stage[p] = "parse"
                /\ Ends(p, IF Accepted(argv[p]) THEN "bind" ELSE "usage")

Taken == {port[p] : p \in {q \in Pubs : stage[q] = "run"}}

SetupSocket(p) ==
    LET asked == SourcePort(argv[p])
        choice == (IF asked = {0} THEN FreePorts ELSE asked) \ Taken
    IN  /\ stage[p] = "bind"
        /\ \/ /\ argv[p].bindable
              /\ \E n \in choice : port' = [port EXCEPT ![p] = n]
              /\ stage' = [stage EXCEPT ![p] = "run"]
              /\ UNCHANGED <<argv, sent, posted, udpq>>
           \/ (~argv[p].bindable \/ choice = {}) /\ Ends(p, "crashed")

RetryBug(p, data) ==
    /\ posted' = Append(posted, [port |-> port[p], data |-> data])
    /\ udpq' = udpq \o <<Len(posted'), Len(posted')>>

(* sendto succeeds whether or not the datagram gets to the server.         *)
Sendto(p, data) ==
    /\ posted' = Append(posted, [port |-> port[p], data |-> data])
    /\ udpq' \in {udpq, Append(udpq, Len(posted'))}

(* send_message: an exception before sendto, or behind it, ends the run.   *)
SendMessage(p, i) ==
    LET message == argv[p].input_file[i]
    IN  /\ Len(sent[p]) < MaxSends
        /\ \/ /\ message.payload = {} \/ ~argv[p].ipv4
              /\ Ends(p, "crashed")
           \/ /\ argv[p].ipv4
              /\ \E data \in message.payload : Sendto(p, data)
              /\ sent' = [sent EXCEPT ![p] = Append(@, i)]
              /\ stage' = IF message.described /\ argv[p].delay >= 0 THEN stage
                          ELSE [stage EXCEPT ![p] = "crashed"]
              /\ UNCHANGED <<argv, port>>

Size(p) == Len(argv[p].input_file)

LastLeftOutBug(p) == IF Len(sent[p]) < Size(p) - 1
                     THEN SendMessage(p, Len(sent[p]) + 1)
                     ELSE Ends(p, "done")

RunAllOnce(p) == IF Len(sent[p]) < Size(p)
                 THEN SendMessage(p, Len(sent[p]) + 1)
                 ELSE Ends(p, "done")

(* "exit" ends it well; end of input, or what is no integer, ends it by an *)
(* exception.  An integer out of range is asked for again.                 *)
RunManual(p) ==
    IF \E i \in 1 .. Size(p) : ~argv[p].input_file[i].described
    THEN Ends(p, "crashed")
    ELSE \/ \E choice \in 0 .. Size(p) - 1 : SendMessage(p, choice + 1)
         \/ \E how \in {"done", "crashed"} : Ends(p, how)

(* random.choice of an empty file raises.                                  *)
RunRandom(p) ==
    IF argv[p].count # << >> /\ Len(sent[p]) >= argv[p].count[1]
    THEN Ends(p, "done")
    ELSE \/ Size(p) = 0 /\ Ends(p, "crashed")
         \/ \E i \in 1 .. Size(p) : SendMessage(p, i)

Run(p) == /\ stage[p] = "run"
          /\ \/ argv[p].mode = "all_once" /\ RunAllOnce(p)
             \/ argv[p].mode = "manual" /\ RunManual(p)
             \/ argv[p].mode = "random" /\ RunRandom(p)

Publish(p) == ParseArgs(p) \/ SetupSocket(p) \/ Run(p)

-----------------------------------------------------------------------------
(* Properties *)

(* udp_client.py: "all_once - send each payload in the list once", random  *)
(* "Number of packets to be send".  A run that ends by itself sent just    *)
(* that, and one that has not ended, or ended otherwise, a part of it in   *)
(* the order of the file; a run that was refused sent nothing.             *)
KeepsMode ==
    \A p \in Pubs :
        LET n == Len(sent[p])
            count == argv[p].count
            all == argv[p].mode = "all_once"
        IN  /\ all => sent[p] = [i \in 1 .. n |-> i]
            /\ stage[p] = "done" /\ all => n = Size(p)
            /\ argv[p].mode = "random" /\ count # << >> /\ n > 0 =>
                  n <= count[1] /\ (stage[p] = "done" => n = count[1])
            /\ stage[p] = "usage" => n = 0
=============================================================================
