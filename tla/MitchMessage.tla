---- MODULE MitchMessage ----
(***************************************************************************)
(* The layouts of MITCH messages: where message.rs of crates/amd-feed      *)
(* reads each field, what build.rs writes and in which order, and which    *)
(* messages decode accepts.  What a field holds is abstracted, except      *)
(* whether the fields with few legal values hold one of them.              *)
(***************************************************************************)
EXTENDS Integers, Sequences, SequencesExt, FiniteSetsExt

\* Types that are recognised and skipped.
Unhandled == {"symbol_directory", "symbol_status", "auction_trade", "auction_info",
              "statistics", "top_of_book"}

\* Where decode reads the fields of a message: offset and width.
Layout ==
  [time |->
     [seconds |-> <<2, 4>>],
   system_event |->
     [nanos |-> <<2, 4>>, event |-> <<6, 1>>],
   add_order |->
     [nanos |-> <<2, 4>>, order_id |-> <<6, 8>>, side |-> <<14, 1>>, quantity |-> <<15, 4>>,
      instrument_id |-> <<19, 4>>, price |-> <<25, 8>>, flags |-> <<33, 1>>],
   add_attributed_order |->
     [nanos |-> <<2, 4>>, order_id |-> <<6, 8>>, side |-> <<14, 1>>, quantity |-> <<15, 4>>,
      instrument_id |-> <<19, 4>>, price |-> <<25, 8>>, attribution |-> <<33, 11>>,
      flags |-> <<44, 1>>],
   order_deleted |->
     [nanos |-> <<2, 4>>, order_id |-> <<6, 8>>, flags |-> <<14, 1>>, instrument_id |-> <<15, 4>>],
   order_modified |->
     [nanos |-> <<2, 4>>, order_id |-> <<6, 8>>, new_quantity |-> <<14, 4>>,
      new_price |-> <<18, 8>>, flags |-> <<26, 1>>],
   order_book_clear |->
     [nanos |-> <<2, 4>>, instrument_id |-> <<6, 4>>, flags |-> <<12, 1>>],
   order_executed |->
     [nanos |-> <<2, 4>>, order_id |-> <<6, 8>>, executed_quantity |-> <<14, 4>>,
      trade_match_id |-> <<18, 8>>],
   order_executed_with_price_size |->
     [nanos |-> <<2, 4>>, order_id |-> <<6, 8>>, executed_quantity |-> <<14, 4>>,
      display_quantity |-> <<18, 4>>, trade_match_id |-> <<22, 8>>, printable |-> <<30, 1>>,
      price |-> <<31, 8>>],
   trade |->
     [nanos |-> <<2, 4>>, executed_quantity |-> <<6, 4>>, instrument_id |-> <<10, 4>>,
      price |-> <<16, 8>>, trade_match_id |-> <<24, 8>>]]

Decoded == DOMAIN Layout

\* min_len: the bytes each decoded type needs.
MinLen ==
  [time |-> 6, system_event |-> 7, add_order |-> 34, add_attributed_order |-> 45,
   order_deleted |-> 19, order_modified |-> 27, order_book_clear |-> 13, order_executed |-> 26,
   order_executed_with_price_size |-> 39, trade |-> 32]

\* The types with a field that not every byte is legal for.
Checked == {"system_event", "add_order", "add_attributed_order", "order_executed_with_price_size"}

\* Message::instrument_id, Message::order_id and Message::nanos: the types
\* they answer for.
NamesInstrument == {"add_order", "add_attributed_order", "order_deleted", "order_book_clear", "trade"}
NamesOrder == {"add_order", "add_attributed_order", "order_deleted", "order_modified",
               "order_executed", "order_executed_with_price_size"}
Timed == Decoded \ {"time"}

\* Mutant: no length is refused for being zero.
ReadableEmpty(f, rest) ==
  /\ rest >= 2
  /\ f.len <= rest
  /\ f.type \in Decoded => f.len >= MinLen[f.type]
  /\ f.type \in Decoded \union Unhandled
  /\ f.type \in Checked => f.valid

\* decode accepts the message f, with that many bytes of payload left: its
\* declared length, its type and whether its checked fields are legal.
Readable(f, rest) ==
  /\ f.len > 0
  /\ rest >= 2
  /\ f.len <= rest
  /\ f.type \in Decoded => f.len >= MinLen[f.type]
  /\ f.type \in Decoded \union Unhandled
  /\ f.type \in Checked => f.valid

----
(* build.rs. *)

Reserved(n) == <<"reserved", n>>

\* The fields of each message of PacketBuilder, in the order they are written
\* after the length and the type.
Written ==
  [time |-> << <<"seconds", 4>> >>,
   system_event |-> << <<"nanos", 4>>, <<"event", 1>> >>,
   add_order |-> << <<"nanos", 4>>, <<"order_id", 8>>, <<"side", 1>>, <<"quantity", 4>>,
                    <<"instrument_id", 4>>, Reserved(2), <<"price", 8>>, <<"flags", 1>>,
                    Reserved(10) >>,
   order_deleted |-> << <<"nanos", 4>>, <<"order_id", 8>>, <<"flags", 1>>, <<"instrument_id", 4>> >>,
   order_modified |-> << <<"nanos", 4>>, <<"order_id", 8>>, <<"new_quantity", 4>>,
                         <<"new_price", 8>>, <<"flags", 1>> >>,
   order_executed |-> << <<"nanos", 4>>, <<"order_id", 8>>, <<"executed_quantity", 4>>,
                         <<"trade_match_id", 8>> >>,
   order_book_clear |-> << <<"nanos", 4>>, <<"instrument_id", 4>>, Reserved(2), <<"flags", 1>> >>,
   trade |-> << <<"nanos", 4>>, <<"executed_quantity", 4>>, <<"instrument_id", 4>>, Reserved(2),
                <<"price", 8>>, <<"trade_match_id", 8>> >>]

\* Mutant: the length counts the fields and forgets the type.
EndOfFields(t, n) == FoldLeft(LAMBDA end, field : end + field[2], 1, SubSeq(Written[t], 1, n))

\* Where the first n fields of a written message end, the length and the type
\* included.
EndOf(t, n) == FoldLeft(LAMBDA end, field : end + field[2], 2, SubSeq(Written[t], 1, n))

\* push: the length a built message declares is the bytes it takes.
BuiltLen(t) == EndOf(t, Len(Written[t]))

----
(* Properties of one type. *)

\* What the builder writes is where the decoder reads it, field by field.
BuilderAgrees(t) ==
  \A n \in DOMAIN Written[t] :
    LET field == Written[t][n] IN
    field[1] # "reserved" => Layout[t][field[1]] = <<EndOf(t, n - 1), field[2]>>

\* The fields of a message are disjoint and its minimum length is the end of
\* the last: no read runs past the declared length into the next message
\* ("a field read may not run past it"), and none that fits is refused.
FieldsFit(t) ==
  LET fields == {Layout[t][name] : name \in DOMAIN Layout[t]} IN
  /\ MinLen[t] = Max({f[1] + f[2] : f \in fields})
  /\ \A f, g \in fields : f = g \/ f[1] + f[2] <= g[1] \/ g[1] + g[2] <= f[1]
  /\ Cardinality(fields) = Cardinality(DOMAIN Layout[t])

\* The accessors answer for exactly the types that carry the field.
AccessorsAnswer(t) ==
  /\ t \in NamesInstrument <=> "instrument_id" \in DOMAIN Layout[t]
  /\ t \in NamesOrder <=> "order_id" \in DOMAIN Layout[t]
  /\ t \in Timed <=> "nanos" \in DOMAIN Layout[t]
====
