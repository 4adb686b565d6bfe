-------------------------- MODULE MCVendorRefresh --------------------------
(***************************************************************************)
(* One connection, which bills.json may move from one portal to the other, *)
(* with the page shapes of the connectors' tests.                          *)
(***************************************************************************)
EXTENDS VendorRefresh

Element(depth, class, text) == [depth |-> depth, class |-> class, text |-> text]

MCDates == [t \in {"07/20/2026", "Jul 22, 2026"} |->
              IF t = "07/20/2026" THEN [day |-> 20, layout |-> "01/02/2006"]
                                  ELSE [day |-> 22, layout |-> "Jan 2, 2006"]]

LoginPage == [status |-> 200, inputs |-> {"__RequestVerificationToken", "FastPaySelection"}]

\* billeriq: the titles of the columns, then the first invoice
Titles  == << Element(1, {"collection-header"}, <<>>),
              Element(2, {"due-date"}, <<"Due Date">>),
              Element(2, {"invoice-amount"}, <<"Amount Billed">>) >>
Invoice(depth, cents) ==
    << Element(depth, {"due-date", "text-end"}, <<" ", "07/20/2026", " ">>),
       Element(depth, {"invoice-amount"}, <<"$">> \o cents) >>
BillPay == Titles \o << Element(1, {"collection-body"}, <<>>) >> \o Invoice(2, <<"1", ".", "5">>)
LoginForm == Landing(200, FALSE, << Element(1, {"due-date"}, <<"07/20/2026">>),
                                    Element(1, {"invoice-amount"}, <<"$", "9">>) >>)

\* columbiagaspa: a banner, then the box with the balance
Banner  == << Element(1, {"h1", "banner"}, <<"S", "a", "v", "e", "$", "5">>) >>
Box(h1) == << Element(1, {"box", "box--balance-details"}, <<>>),
              Element(2, {"h1"}, h1),
              Element(2, {"balance-due-on"}, <<"Due on", " ", "Jul 22, 2026">>) >>

Dashboard(h1) == Landing(200, FALSE, Banner \o Box(h1))
Refused == Landing(200, FALSE, Banner)

Down == Landing(503, TRUE, BillPay)

PortalOf(login, accepted, refused, cents, due) ==
    [login |-> login, accepted |-> accepted, refused |-> refused,
     truth |-> IF accepted.status = 200 THEN [cents |-> cents, due |-> due] ELSE NoBill]

\* a bill; another one, which at billeriq has no list around it and at
\* columbiagaspa is a credit; at last a login page without its tokens, and an
\* amount that an INTEGER column cannot hold
MCSite ==
    [first  |-> [billeriq |->
                    PortalOf(LoginPage, Landing(200, TRUE, BillPay), LoginForm, 150, 20),
                 columbiagaspa |->
                    PortalOf(LoginPage, Dashboard(<<"7", "5", ".", "0", "9">>), Refused, 7509, 22)],
     second |-> [billeriq |->
                    PortalOf(LoginPage, Landing(200, TRUE, Invoice(1, <<"2">>)), LoginForm, 200, 20),
                 columbiagaspa |->
                    PortalOf(LoginPage, Dashboard(<<"-", "$", "3">>), Refused, -300, 22)],
     third  |-> [billeriq |->
                    PortalOf([LoginPage EXCEPT !.inputs = {}], Down, Down, 0, 0),
                 columbiagaspa |->
                    PortalOf(LoginPage, Dashboard(<<"9", ",", "0", "0", "0">>), Down, 900000, 22)]]

MCConns == <<"water">>

=============================================================================
