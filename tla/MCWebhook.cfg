\* Once every call is answered only the scrapes go on.
CONSTANTS
    m1 = m1
    v1 = v1
    Calls <- MCCalls
    WebhookOf <- MCWebhookOf
    PolicyOrder <- MCPolicyOrder
    Mode <- MCMode
SPECIFICATION Spec
INVARIANTS
    TypeOK
    EachCallCountedOnce
    ScrapeExplainsDenials
    ModeLabelIsConfigured
    BooksBalance
PROPERTIES
    Promise
