----------------------------- MODULE MCStartup -----------------------------
(* Startup with eight of the users of users.yml, four or five products and *)
(* one or two failures.                                                    *)
EXTENDS Startup

(* The order in which their rows come, as in users.yml: who has an answer  *)
(* or a feedback gets the address later.                                   *)
Person(key, more) == [key |-> key, more |-> more]
MCStaticUsers ==
    << Person("admin", << <<"SecurityAnswer">>, <<"Feedback">>, <<"Address">>, <<"Card", "Card">> >>),
       Person("jim", << <<"SecurityAnswer">>, <<"Feedback">>, <<"Address", "Address">> >>),
       Person("bender", << <<"SecurityAnswer">>, <<"Address">> >>),
       Person("bjoernGoogle", << <<"Address">> >>),
       Person("chris", << <<"SecurityAnswer">>, <<"delete">> >>),
       Person("bjoernOwasp", <<>>),
       Person("john", <<>>),
       Person("emma", <<>>) >>

Recycled(user, address) == [user |-> user, address |-> address]
MCRecycles == <<Recycled(2, 4), Recycled(4, 1), Recycled(1, 3)>>

MCBaskets == <<1, 2>>
MCBasketItems == <<[basket |-> 1, product |-> 1], [basket |-> 2, product |-> 4]>>

Product(specials, author) == [specials |-> specials, extra |-> TRUE, author |-> author]
Memory(specials, user) == [specials |-> specials, user |-> user]

Default ==
    [products |-> <<Product({}, "admin"), Product({"christmas"}, "none"), Product({"tampering"}, "bender"),
                    Product({"blueprint"}, "none"), Product({"pastebin"}, "none")>>,
     memories |-> <<Memory({"meta"}, "none"), Memory({"visual"}, "none"), Memory({}, "jim")>>,
     schema |-> TRUE, combos |-> TRUE, intents |-> TRUE,
     urls |-> {"favicon", "overlay"}]

(* Configurations that are refused.                                        *)
Few == [Default EXCEPT !.products = <<Product({"christmas"}, "none"), Product({"tampering", "blueprint"}, "none"),
                                      Product({"pastebin"}, "none")>>]
Shared == [Default EXCEPT !.products = <<Product({"christmas"}, "none"), Product({"tampering", "pastebin"}, "none"),
                                         Product({"blueprint"}, "none"), Product({}, "none")>>]

(* Configurations that are accepted although the start cannot succeed.     *)
Unknown == [Default EXCEPT !.products[1].author = "nobody"]
Stranger == [Default EXCEPT !.memories[3].user = "nobody"]
NoIntent == [Default EXCEPT !.intents = FALSE]

Small == [Default EXCEPT !.products = SubSeq(@, 2, 5), !.memories = SubSeq(@, 1, 2), !.urls = {}]
Avatar == [Default EXCEPT !.urls = {"avatar", "subtitles"}]

Nothing == [fail |-> 0, io |-> 0, busy |-> 0, broken |-> 0, order |-> 0, post |-> 0, remove |-> 0, signal |-> 0]
Case(c, bound) == [cfg |-> c, todo |-> bound]

MCScenarios ==
    {Case(Small, [Nothing EXCEPT !.fail = 1]),
     Case(Default, [Nothing EXCEPT !.io = 1, !.order = 1, !.signal = 1]),
     Case(Default, [Nothing EXCEPT !.post = 1, !.remove = 2]),
     Case(Default, [Nothing EXCEPT !.busy = 1]),
     Case(Default, [Nothing EXCEPT !.broken = 1]),
     Case(Avatar, [Nothing EXCEPT !.io = 1])}
    \cup {Case(c, Nothing) : c \in {Few, Shared, Unknown, Stranger, NoIntent}}
=============================================================================
