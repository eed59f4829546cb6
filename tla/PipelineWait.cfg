SPECIFICATION SimSpec
CONSTANT
    Decls <- Backpressured
PROPERTY
    ItemsInOrder
