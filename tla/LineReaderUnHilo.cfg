\* One thread: the steps of a request add up to one step of LineReader.
SPECIFICATION HSpec
CONSTANTS
    Nombres = {x, y}
    Tipos = {"int", "char"}
    MaxNumero = 1
    Numeros <- MCNumeros
    Caracteres = {c0, c1}
    Literales = {1, c1}
    Cero = 0
    CarNulo = c0
    Operadores = {}
    Aritmetica <- MCAritmetica
    Conversion <- MCConversion
    Capacidad = 2
    Indeterminado = Indeterminado
    Nulo = Nulo
    MaxNumVariables = 2
    MaxLlaves = 1
    Hilos = {h1}
VIEW Vista
SYMMETRY SimetriaNombres
PROPERTY
    ImplementaLineReader
CHECK_DEADLOCK FALSE
