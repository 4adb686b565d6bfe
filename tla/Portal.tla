------------------------------ MODULE Portal ------------------------------
(***************************************************************************)
(* The connectors: how FetchBill of billeriq and of columbiagaspa logs in  *)
(* to a vendor's portal and reads a bill off the page it lands on.  A page *)
(* is the sequence of its elements in document order, each with its depth  *)
(* in the tree, its classes and the text directly in it; a text is a       *)
(* sequence of characters, a label or a date being one token.  What the    *)
(* portal sends is external; this module says what the program makes of it.*)
(***************************************************************************)
EXTENDS Money

CONSTANTS
    Dates,  \* Dates[t]: the day and the layout of the token t, for every date
    NoBill  \* what FetchBill returns with an error

\* where FetchBill landed: status, whether the path has /BillPay, the elements
Landing(status, billPay, page) == [status |-> status, billPay |-> billPay, page |-> page]

hasClass(e, class) == class \in e.class

\* element i with everything in it
Subtree(page, i) ==
    LET outside == {j \in (i + 1)..Len(page) : page[j].depth <= page[i].depth}
    IN SubSeq(page, i, IF outside = {} THEN Len(page) ELSE Min(outside) - 1)

textContent(tree) == FlattenSeq([i \in DOMAIN tree |-> tree[i].text])

\* strings.TrimSpace
Trim(text) ==
    LET solid == {i \in DOMAIN text : text[i] # " "}
    IN IF solid = {} THEN <<>> ELSE SubSeq(text, Min(solid), Max(solid))

\* the walk goes through the tree in document order; <<>> when nothing is found
findFirstByClass(tree, class) ==
    LET i == SelectInSeq(tree, LAMBDA e : hasClass(e, class))
    IN IF i = 0 THEN <<>> ELSE Subtree(tree, i)

findTextByClass(tree, class) == Trim(textContent(findFirstByClass(tree, class)))

\* a date in one of the layouts the connector knows
dueDateFormats == [billeriq      |-> {"01/02/2006", "1/2/2006", "January 2, 2006",
                                      "Jan 2, 2006", "2006-01-02"},
                   columbiagaspa |-> {"Jan 2, 2006", "January 2, 2006"}]

\* columbiagaspa drops "Due on" before the date, billeriq does not
DateToken(connector, text) ==
    LET date == IF connector = "columbiagaspa" /\ text # <<>> /\ Head(text) = "Due on"
                THEN Trim(Tail(text)) ELSE text
    IN IF Len(date) = 1 THEN date[1] ELSE ""

DateParses(connector, text) ==
    LET t == DateToken(connector, text)
    IN t \in DOMAIN Dates /\ Dates[t].layout \in dueDateFormats[connector]

\* FetchBill from the elements the values are in; an element that is not there
\* has no text, and no text is neither a date nor an amount
Scrape(connector, root, dueClass, amountClass) ==
    LET dueText == findTextByClass(root, dueClass)
        amount  == parseDollarsToCents(findTextByClass(root, amountClass))
    IN IF DateParses(connector, dueText) /\ amount.ok
       THEN [cents |-> amount.value, due |-> Dates[DateToken(connector, dueText)].day]
       ELSE NoBill

\* wrong: the whole page is searched, column titles, banners and all
BilleriqBillAnywhere(landing) ==
    IF landing.status = 200 /\ landing.billPay
    THEN Scrape("billeriq", landing.page, "due-date", "invoice-amount") ELSE NoBill

ColumbiagaspaBillAnywhere(landing) ==
    IF landing.status = 200 THEN Scrape("columbiagaspa", landing.page, "balance-due-on", "h1")
    ELSE NoBill

\* a login that was refused ends on the login form again, whose path is not
\* /BillPay; the titles of the columns have the classes of the values, so the
\* search is limited to the collection-body if there is one
BilleriqBill(landing) ==
    LET body == findFirstByClass(landing.page, "collection-body")
        root == IF body = <<>> THEN landing.page ELSE body
    IN IF landing.status = 200 /\ landing.billPay
       THEN Scrape("billeriq", root, "due-date", "invoice-amount") ELSE NoBill

\* a login that was refused has no box--balance-details
ColumbiagaspaBill(landing) ==
    LET root == findFirstByClass(landing.page, "box--balance-details")
    IN IF landing.status = 200 /\ root # <<>>
       THEN Scrape("columbiagaspa", root, "balance-due-on", "h1") ELSE NoBill

\* connectors.Get: the registry
Registry == {"billeriq", "columbiagaspa"}

FetchedBill(connector, landing) ==
    IF connector = "billeriq" THEN BilleriqBill(landing) ELSE ColumbiagaspaBill(landing)

\* fetchLoginTokens: the hidden inputs the login needs; FastPaySelection may be
\* empty but must be there
LoginTokens(login) ==
    login.status = 200 /\ {"__RequestVerificationToken", "FastPaySelection"} \subseteq login.inputs

=============================================================================
