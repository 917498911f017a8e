CONSTANTS
    c1 = c1
    c2 = c2
    text = text
    options = options
    Clients = {c1, c2}
    Fields = {text, options}
    Values = {0, 1}
    Kinds <- OnlyQuery
    MaxVersion = 3
    Unseen = Unseen
SPECIFICATION Spec
INVARIANT HashOfText
