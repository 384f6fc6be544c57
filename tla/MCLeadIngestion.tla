-------------------------- MODULE MCLeadIngestion --------------------------
(***************************************************************************)
(* Small instances of lead ingestion: files of up to two rows over two     *)
(* addresses, three-row files with repeated addresses, headers with and    *)
(* without the required columns.                                           *)
(***************************************************************************)
EXTENDS LeadIngestion

CONSTANTS a, b

Plain == {"first_name", "last_name", "company_name"}
Row(e, ok) == [email |-> e, ok |-> ok]
File(kind, header, rows) == [kind |-> kind, header |-> header, rows |-> rows]

ShortFiles ==
    LET Lines == [email: {a, b}, ok: BOOLEAN]
    IN {File("csv", {"fname", "surname", "company", "mail"}, rows) :
           rows \in {<<r, s>> : r, s \in Lines} \cup {<<r>> : r \in Lines}}

OddFiles ==
    {File("sheet", Plain \cup {"email"}, <<Row(b, TRUE), Row(a, TRUE), Row(b, FALSE)>>),
     File("csv", Plain \cup {"email"}, <<Row(a, FALSE), Row(a, TRUE), Row(b, TRUE)>>),
     File("csv", Plain \cup {"e-mail"}, <<Row(a, TRUE)>>),
     File("sheet", Plain, <<Row(a, TRUE), Row(b, TRUE)>>)}

SomeFiles == ShortFiles \cup OddFiles
=============================================================================
